---- MODULE Spec2Model ----
(***************************************************************************)
(* A model of the luigi pipeline of run_luigi.py: the artifact store on    *)
(* disk, the per-stage completeness checks (get_incomplete / complete),    *)
(* the output() path maps, and the three ways a stage's run() executes its *)
(* work items: a multiprocessing pool (pool.map inside try/finally), a     *)
(* serial for loop, and the batched GPU loop.                              *)
(***************************************************************************)
EXTENDS Integers, Sequences, FiniteSets, TLC

\* ------------------------------------------------------------------------
\* Bounds of the model
\* ------------------------------------------------------------------------
\* longest input list returned by PrepareData.get_input_list()
MaxItems == 2
\* number of worker processes of mp.Pool(processes=None), i.e. cpu_count()
NumProcs == 2
\* largest batch_size parameter of the GPU stages
BatchSize == 2

\* image paths of the data set: <<directory, stem, extension>>
Fpaths == {<<"a", "x", "jpg">>, <<"b", "x", "jpg">>, <<"a", "y", "jpg">>}
\* the image whose worker raises when it is listed as unreadable
BadCandidates == {{}, {<<"a", "y", "jpg">>}}
\* the lists a ListParameter curv_scales is drawn from, in units of 0.0001
ScaleLists == {<<>>, <<400, 800>>, <<401, 404>>}

InputLists == UNION {[1..n -> Fpaths] : n \in 1..MaxItems}

Range(s) == {s[i] : i \in 1..Len(s)}

\* ------------------------------------------------------------------------
\* Stages
\* ------------------------------------------------------------------------
PoolStages == {"Preprocess", "Keypoints", "ExtractOutline", "SeparateEdges"}
GpuStages == {"Localization", "Segmentation"}
PerImageStages == PoolStages \cup GpuStages
StoreStages == {"BlockCurvature", "GaussDescriptors", "CurvatureDescriptors"}
Stages == PerImageStages \cup StoreStages

VARIABLES
    stage,        \* the luigi task whose run() is modelled in this behaviour
    cfg,          \* the task's parameters, fixed for the behaviour
    input_list,   \* PrepareData.get_input_list()
    bad,          \* images on which the stage's worker function raises
    files,        \* paths that exist on disk (os.path.exists / isfile)
    entries,      \* contents: [path, key, val, full]; key <<>> is a plain file
    torn,         \* stores whose in-place writer was killed before close()
    pc,           \* position of the orchestrating thread in run()
    to_process,   \* the list get_incomplete() returned to run()
    queue,        \* pool task queue: chunk numbers not yet taken
    workers,      \* pool worker processes
    pool_state,   \* the mp.Pool of run(): none, run, closed, joined
    done_tasks,   \* chunks whose result arrived as success
    failed_tasks, \* chunks whose result arrived as an exception
    exc,          \* an exception is propagating out of run()
    next,         \* in-process loops: index of the next item of to_process
    main_ops,     \* in-process loops: writes left for the current item
    batch,        \* GPU loop: the batch number i of the outer loop
    batch_rows,   \* GPU loop: rows of the batch handed to the inference func
    start_files,  \* files when run() was entered
    start_entries,\* entries when run() was entered
    written,      \* artifacts [path, key] written since run() was entered
    calls,        \* indices of to_process handed to the worker function
    raised_on     \* images on which the worker function has raised so far

stage_vars == <<stage, cfg, input_list, bad, files, entries, torn, pc,
                to_process, queue, workers, pool_state, done_tasks, failed_tasks,
                exc, next, main_ops, batch, batch_rows, start_files, start_entries,
                written, calls, raised_on>>

VARIABLES
    reconfigured, \* how often the task's parameters were changed between runs
    runs,         \* SeparateDatabaseQueries: the runs parameter
    sfiles,       \* the split files db<i>.pickle, qr<i>.pickle that exist
    spc,          \* position in SeparateDatabaseQueries.run / DescriptorsId.output
    sdq_i,        \* SeparateDatabaseQueries.run: the loop index i
    sdq_part,     \* SeparateDatabaseQueries.run: the file written next
    sdq_caller,   \* who called SeparateDatabaseQueries.run
    out_i,        \* DescriptorsId.output: the loop index i
    pd_files,     \* the outputs of PrepareData that exist: csv, pkl
    ppc,          \* position in PrepareData.run / get_input_list
    pd_caller,    \* who called PrepareData.run
    rewritten,    \* files written while they existed: [path, by]
    last_result   \* how the last output() / get_input_list() call ended

split_vars == <<runs, sfiles, spc, sdq_i, sdq_part, sdq_caller, out_i, pd_files,
                ppc, pd_caller, rewritten, last_result>>

VARIABLES
    annots,       \* dependency cache: per annotation, the stage whose own
                  \* computation fails on it ("never" if none does)
    tables,       \* dependency cache: the rows of each table, <<>> before
                  \* the table is computed
    depc_error    \* a stage of the dependency cache raised

depc_vars == <<annots, tables, depc_error>>

VARIABLES
    rtask,        \* the results task evaluated
    db_indivs,    \* db_dict.keys(): the database identities, in dict order
    db_curv,      \* per database identity, its curvature vectors
    rpc,          \* position of the results task's run()
    all_rows,     \* rows written to the 'all' csv, one per query encounter
    indiv_rank_indices,  \* per query identity, the ranks of its encounters
    mrr_rows,     \* rows written to the 'mrr' csv
    topk_rows     \* rows written to the 'topk' csv

rank_vars == <<rtask, db_indivs, db_curv, rpc, all_rows, indiv_rank_indices,
               mrr_rows, topk_rows>>

VARIABLES
    walk          \* a walk up a dependency relation: the relation walked,
                  \* the descriptor_type parameter, the path so far

graph_vars == <<walk>>

VARIABLES
    dcfg,         \* DescriptorsId: the parameters k, serial and the scales
    db_fpath_dict,  \* the database of the split run() is at
    to_identify,  \* get_incomplete()[run_idx] of the split run() is at
    dpc,          \* position of DescriptorsId.run()
    run_idx,      \* the split run() is at
    db_names_dict,  \* per scale, the identity labels collected
    db_descs_dict,  \* per scale, the stacked descriptor rows
    ann,          \* the index files data/tmp/<scale>.ann
    builds,       \* the index builds handed to the pool and their state
    id_queue,     \* the identifications handed over and not yet started
    id_running,   \* the identifications in progress
    identified,   \* the identifications finished
    dexc          \* the exception run() ended with

desc_vars == <<dcfg, db_fpath_dict, to_identify, dpc, run_idx, db_names_dict,
               db_descs_dict, ann, builds, id_queue, id_running, identified,
               dexc>>

eval_vars == <<depc_vars, rank_vars, graph_vars, desc_vars>>

VARIABLES
    te_input,     \* SeparateDatabaseQueries.run: the input list it reads
    te_artifacts, \* what each trailing-coords target path holds on disk
    te_pending,   \* the keys of trailing_edge_dict the loop has not visited
    fname_trailing_edge_dict,  \* the dict handed to the split function
    cpc           \* where SeparateDatabaseQueries.run is before its split loop

collect_vars == <<te_input, te_artifacts, te_pending, fname_trailing_edge_dict,
                  cpc>>

VARIABLES
    split_ranks,  \* DescriptorsResults: indiv_rank_indices of every split
    arun,         \* run_idx of the loop over the splits
    topk_aggr,    \* per split, the accuracies appended by its top-k loop
    agg_num_indivs,  \* the local num_indivs, as the last split left it
    aggr,         \* np.vstack(...).T
    agg_rows,     \* the rows of the aggregate csv below its header
    apc           \* where the aggregation is

aggr_vars == <<split_ranks, arun, topk_aggr, agg_num_indivs, aggr, agg_rows,
               apc>>

report_vars == <<collect_vars, aggr_vars>>

vars == <<stage_vars, report_vars, reconfigured, split_vars, eval_vars, report_vars>>

\* ------------------------------------------------------------------------
\* Paths and the output() maps
\* ------------------------------------------------------------------------
\* splitext(basename(fpath))[0]: directory and extension are dropped
Fname(fpath) == fpath[2]

\* the side column of the data tuple of an image
Side(fpath) == IF fpath[1] = "b" THEN "right" ELSE "left"

\* join('data', dataset, ClassName, kind, fname + ext) of a per-image stage
FileTargets(name, kinds, ext) ==
    [f \in Range(input_list) |->
        [k \in kinds |-> <<"data", name, k, Fname(f), ext[k]>>]]

PreprocessOutput ==
    FileTargets("Preprocess", {"resized", "transform"},
                [resized |-> "png", transform |-> "pickle"])

LocalizationOutput ==
    FileTargets("Localization",
                {"localization", "localization-full", "mask", "transform"},
                ("localization" :> "png") @@ ("localization-full" :> "png")
                @@ ("mask" :> "pickle") @@ ("transform" :> "pickle"))

SegmentationOutput ==
    FileTargets("Segmentation",
                {"segmentation-image", "segmentation-data",
                 "segmentation-full-image", "segmentation-full-data"},
                ("segmentation-image" :> "png")
                @@ ("segmentation-data" :> "pickle")
                @@ ("segmentation-full-image" :> "png")
                @@ ("segmentation-full-data" :> "pickle"))

KeypointsOutput ==
    FileTargets("Keypoints", {"keypoints-visual", "keypoints-coords"},
                ("keypoints-visual" :> "png")
                @@ ("keypoints-coords" :> "pickle"))

ExtractOutlineOutput ==
    FileTargets("ExtractOutline", {"outline-visual", "outline-coords"},
                ("outline-visual" :> "png") @@ ("outline-coords" :> "pickle"))

SeparateEdgesOutput ==
    FileTargets("SeparateEdges",
                {"visual", "leading-coords", "trailing-coords"},
                ("visual" :> "png") @@ ("leading-coords" :> "pickle")
                @@ ("trailing-coords" :> "pickle"))

\* 'uniform' if self.uniform else 'standard'
Unifdir(c) == IF c.uniform THEN "uniform" ELSE "standard"

\* '%d' % self.feat_dim
Featdir(c) == ToString(c.feat_dim)

\* join(basedir, h5py_fname): one HDF5 store per image; the entry of an
\* image is assigned inside the loop over self.curv_scales, so that there is
\* none when the list of scales is empty
BlockCurvatureOutput ==
    [f \in IF cfg.curv_scales = <<>> THEN {} ELSE Range(input_list) |->
        [k \in {"curvature"} |-> <<"data", "BlockCurvature", Fname(f), "h5py">>]]

\* join(basedir, unifdir, featdir, h5py_fname)
GaussDescriptorsOutput ==
    [f \in Range(input_list) |->
        [k \in {"descriptors"} |->
            <<"data", "GaussDescriptors", Unifdir(cfg), Featdir(cfg),
              Fname(f), "h5py">>]]

CurvatureDescriptorsOutput ==
    [f \in Range(input_list) |->
        [k \in {"descriptors"} |->
            <<"data", "CurvatureDescriptors", Unifdir(cfg), Featdir(cfg),
              Fname(f), "h5py">>]]

Output(s) ==
    CASE s = "Preprocess" -> PreprocessOutput
      [] s = "Localization" -> LocalizationOutput
      [] s = "Segmentation" -> SegmentationOutput
      [] s = "Keypoints" -> KeypointsOutput
      [] s = "ExtractOutline" -> ExtractOutlineOutput
      [] s = "SeparateEdges" -> SeparateEdgesOutput
      [] s = "BlockCurvature" -> BlockCurvatureOutput
      [] s = "GaussDescriptors" -> GaussDescriptorsOutput
      [] s = "CurvatureDescriptors" -> CurvatureDescriptorsOutput

\* ------------------------------------------------------------------------
\* Scale keys of the HDF5 stores
\* ------------------------------------------------------------------------
\* '%.3f' % scale, for a scale given in units of 0.0001: three decimals are
\* kept, the fourth is rounded away
Fmt3(scale) == <<(scale + 5) \div 10>>

\* '%s' % (s,) of an (m, s) tuple of integers: the tuple written out
FmtTuple(s) == <<s[1], s[2]>>

\* zip(self.descriptor_m, self.descriptor_s)
Zip(a, b) ==
    [i \in 1..(IF Len(a) < Len(b) THEN Len(a) ELSE Len(b)) |-> <<a[i], b[i]>>]

\* the scales a store stage is configured with, in configured order
ConfiguredScales(s) ==
    IF s = "GaussDescriptors" THEN Zip(cfg.descriptor_m, cfg.descriptor_s)
    ELSE cfg.curv_scales

ScaleKey(s, scale) ==
    IF s = "GaussDescriptors" THEN FmtTuple(scale) ELSE Fmt3(scale)

\* ------------------------------------------------------------------------
\* The file system
\* ------------------------------------------------------------------------
\* os.path.exists(path)
Exists(path) == path \in files

\* HDF5LocalTarget.exists(): isfile(self.path)
HDF5Exists(path) == path \in files

\* h5f.keys() of a store opened with target.open('r')
H5Keys(path) == {e.key : e \in {x \in entries : x.path = path}}

\* ------------------------------------------------------------------------
\* get_incomplete() and complete()
\* ------------------------------------------------------------------------
\* an element of to_process: (fpath, side), fpath, or (fpath, scales)
Item(f, side, scales) == [fpath |-> f, side |-> side, scales |-> scales]

PreprocessGetIncomplete ==
    LET output == PreprocessOutput
        missing(f) == \/ ~Exists(output[f]["resized"])
                      \/ ~Exists(output[f]["transform"])
        sel == SelectSeq(input_list, missing)
    IN  [i \in 1..Len(sel) |-> Item(sel[i], Side(sel[i]), <<>>)]

\* a variant that reports an image only when all four artifacts are missing
LocalizationGetIncompleteAllMissing ==
    LET output == LocalizationOutput
        missing(f) == /\ ~Exists(output[f]["localization"])
                      /\ ~Exists(output[f]["localization-full"])
                      /\ ~Exists(output[f]["mask"])
                      /\ ~Exists(output[f]["transform"])
        sel == SelectSeq(input_list, missing)
    IN  [i \in 1..Len(sel) |-> Item(sel[i], Side(sel[i]), <<>>)]

LocalizationGetIncomplete ==
    LET output == LocalizationOutput
        missing(f) == \/ ~Exists(output[f]["localization"])
                      \/ ~Exists(output[f]["localization-full"])
                      \/ ~Exists(output[f]["mask"])
                      \/ ~Exists(output[f]["transform"])
        sel == SelectSeq(input_list, missing)
    IN  [i \in 1..Len(sel) |-> Item(sel[i], Side(sel[i]), <<>>)]

SegmentationGetIncomplete ==
    LET output == SegmentationOutput
        missing(f) == \/ ~Exists(output[f]["segmentation-image"])
                      \/ ~Exists(output[f]["segmentation-data"])
                      \/ ~Exists(output[f]["segmentation-full-image"])
                      \/ ~Exists(output[f]["segmentation-full-data"])
        sel == SelectSeq(input_list, missing)
    IN  [i \in 1..Len(sel) |-> Item(sel[i], "", <<>>)]

\* a variant that returns every image, complete or not
KeypointsGetIncompleteUnfiltered ==
    [i \in 1..Len(input_list) |-> Item(input_list[i], "", <<>>)]

KeypointsGetIncomplete ==
    LET output == KeypointsOutput
        missing(f) == \/ ~Exists(output[f]["keypoints-visual"])
                      \/ ~Exists(output[f]["keypoints-coords"])
        sel == SelectSeq(input_list, missing)
    IN  [i \in 1..Len(sel) |-> Item(sel[i], "", <<>>)]

ExtractOutlineGetIncomplete ==
    LET output == ExtractOutlineOutput
        missing(f) == \/ ~Exists(output[f]["outline-visual"])
                      \/ ~Exists(output[f]["outline-coords"])
        sel == SelectSeq(input_list, missing)
    IN  [i \in 1..Len(sel) |-> Item(sel[i], "", <<>>)]

SeparateEdgesGetIncomplete ==
    LET output == SeparateEdgesOutput
        missing(f) == \/ ~Exists(output[f]["visual"])
                      \/ ~Exists(output[f]["leading-coords"])
                      \/ ~Exists(output[f]["trailing-coords"])
        sel == SelectSeq(input_list, missing)
    IN  [i \in 1..Len(sel) |-> Item(sel[i], "", <<>>)]

\* the inner loop of the store stages: only compute the missing scales
ScalesToCompute(s, scales, scales_computed) ==
    LET missing(scale) == ScaleKey(s, scale) \notin scales_computed
    IN  SelectSeq(scales, missing)

\* the outer loop of the store stages: an image is incomplete if no hdf5
\* file exists for it, or the file exists but some scales are missing
StoreGetIncomplete(s, output, kind, scales) ==
    LET todo(f) == IF HDF5Exists(output[f][kind])
                   THEN ScalesToCompute(s, scales, H5Keys(output[f][kind]))
                   ELSE scales
        incomplete(f) == IF HDF5Exists(output[f][kind])
                         THEN todo(f) # <<>>
                         ELSE TRUE
        sel == SelectSeq(input_list, incomplete)
    IN  [i \in 1..Len(sel) |-> Item(sel[i], "", todo(sel[i]))]

BlockCurvatureGetIncomplete ==
    StoreGetIncomplete("BlockCurvature", BlockCurvatureOutput, "curvature",
                       cfg.curv_scales)

GaussDescriptorsGetIncomplete ==
    StoreGetIncomplete("GaussDescriptors", GaussDescriptorsOutput,
                       "descriptors",
                       Zip(cfg.descriptor_m, cfg.descriptor_s))

CurvatureDescriptorsGetIncomplete ==
    StoreGetIncomplete("CurvatureDescriptors", CurvatureDescriptorsOutput,
                       "descriptors", cfg.curv_scales)

GetIncomplete(s) ==
    CASE s = "Preprocess" -> PreprocessGetIncomplete
      [] s = "Localization" -> LocalizationGetIncomplete
      [] s = "Segmentation" -> SegmentationGetIncomplete
      [] s = "Keypoints" -> KeypointsGetIncomplete
      [] s = "ExtractOutline" -> ExtractOutlineGetIncomplete
      [] s = "SeparateEdges" -> SeparateEdgesGetIncomplete
      [] s = "BlockCurvature" -> BlockCurvatureGetIncomplete
      [] s = "GaussDescriptors" -> GaussDescriptorsGetIncomplete
      [] s = "CurvatureDescriptors" -> CurvatureDescriptorsGetIncomplete

\* output[fpath] of get_incomplete() raises KeyError for these images
KeyErrors(s) == {f \in Range(input_list) : f \notin DOMAIN Output(s)}

\* the stages that define complete(): not bool(self.get_incomplete())
OwnComplete(s) == KeyErrors(s) = {} /\ GetIncomplete(s) = <<>>

\* luigi.Task.complete() of the stages that do not override it: the task has
\* outputs and every target of flatten(self.output()) exists
DefaultComplete(s) ==
    LET output == Output(s)
        targets == {output[f][k] : f \in DOMAIN output,
                                   k \in UNION {DOMAIN output[g] :
                                                g \in DOMAIN output}}
    IN  targets # {} /\ \A t \in targets : Exists(t)

Complete(s) ==
    IF s \in {"Preprocess"} \cup StoreStages
    THEN OwnComplete(s)
    ELSE DefaultComplete(s)

\* ------------------------------------------------------------------------
\* Writing artifacts
\* ------------------------------------------------------------------------
Op(op, path, key, val) == [op |-> op, path |-> path, key |-> key, val |-> val]

\* the parameters of the task that run() hands to the worker function (the
\* keyword arguments of partial(...)) or uses itself while computing
WorkerParams(s) ==
    CASE s = "Preprocess" -> [imsize |-> cfg.imsize]
      [] s = "Localization" -> [scale |-> cfg.scale, imsize |-> cfg.imsize]
      [] s = "Segmentation" -> [scale |-> cfg.scale]
      [] s = "Keypoints" -> <<>>
      [] s = "ExtractOutline" -> [scale |-> cfg.scale]
      [] s = "SeparateEdges" -> <<>>
      [] s = "BlockCurvature" -> [trans_dims |-> cfg.trans_dims]
      [] s = "GaussDescriptors" ->
            [num_keypoints |-> cfg.num_keypoints, feat_dim |-> cfg.feat_dim,
             contour_length |-> cfg.contour_length, uniform |-> cfg.uniform]
      [] s = "CurvatureDescriptors" ->
            [num_keypoints |-> cfg.num_keypoints, feat_dim |-> cfg.feat_dim,
             curv_length |-> cfg.curv_length, uniform |-> cfg.uniform]

\* what the worker function computes for an image: a function of the image
\* and of the parameters it was given
Result(s, f) == [src |-> f, params |-> WorkerParams(s)]

\* what the worker function of a store stage computes for an image at one
\* scale
ScaleResult(s, f, scale) ==
    [src |-> f, params |-> WorkerParams(s), scale |-> scale]

\* luigi.LocalTarget.open('wb') inside one with statement: every target is
\* written to a temporary file that is renamed onto the target path when the
\* with block exits, the last target opened first
AtomicWrites(output, f, order, val) ==
    [i \in 1..Len(order) |->
        Op("rename", output[f][order[Len(order) + 1 - i]], <<>>, val)]

\* Localization.run: with loc_lr_target ... as f1, ..., trns_target ... as f4
LocalizationWrites(f) ==
    AtomicWrites(LocalizationOutput, f,
                 <<"localization", "localization-full", "mask", "transform">>,
                 Result("Localization", f))

\* Segmentation.run: with segm_img_target ... as f1, ... as f4
SegmentationWrites(f) ==
    AtomicWrites(SegmentationOutput, f,
                 <<"segmentation-image", "segmentation-data",
                   "segmentation-full-image", "segmentation-full-data">>,
                 Result("Segmentation", f))

\* the worker functions of the pool stages: each output target of the image
\* is written through target.open('wb')
WorkerOrder(s) ==
    CASE s = "Preprocess" -> <<"resized", "transform">>
      [] s = "Keypoints" -> <<"keypoints-visual", "keypoints-coords">>
      [] s = "ExtractOutline" -> <<"outline-visual", "outline-coords">>
      [] s = "SeparateEdges" -> <<"visual", "leading-coords", "trailing-coords">>

WorkerWrites(s, f) ==
    AtomicWrites(Output(s), f, WorkerOrder(s), Result(s, f))

\* HDF5LocalTarget.open('a'): makedirs() and h5py.File(self.path, 'a') on the
\* target path itself, no temporary file
HDF5Open(path) == <<Op("h5open", path, <<>>, <<>>)>>

\* the worker functions of the store stages: the store is opened for
\* appending and one dataset per scheduled scale is created and filled
RECURSIVE StoreDatasets(_, _, _, _)
StoreDatasets(s, path, f, scales) ==
    IF scales = <<>> THEN <<>>
    ELSE <<Op("h5create", path, ScaleKey(s, Head(scales)),
              ScaleResult(s, f, Head(scales))),
           Op("h5fill", path, ScaleKey(s, Head(scales)),
              ScaleResult(s, f, Head(scales)))>>
         \o StoreDatasets(s, path, f, Tail(scales))

StoreKind(s) == IF s = "BlockCurvature" THEN "curvature" ELSE "descriptors"

StoreWrites(s, item) ==
    LET path == Output(s)[item.fpath][StoreKind(s)]
    IN  HDF5Open(path) \o StoreDatasets(s, path, item.fpath, item.scales)
        \o <<Op("h5close", path, <<>>, <<>>)>>

\* the writes one call of the stage's worker function makes for an item
ItemOps(s, item) ==
    CASE s = "Localization" -> LocalizationWrites(item.fpath)
      [] s = "Segmentation" -> SegmentationWrites(item.fpath)
      [] s \in PoolStages -> WorkerWrites(s, item.fpath)
      [] s \in StoreStages -> StoreWrites(s, item)

\* h5py refuses to create a dataset under a name the store already holds
OpRaises(o) == o.op = "h5create" /\ o.key \in H5Keys(o.path)

Art(path, key) == [path |-> path, key |-> key]

Put(path, key, val, full) ==
    {e \in entries : ~(e.path = path /\ e.key = key)}
    \cup {[path |-> path, key |-> key, val |-> val, full |-> full]}

\* the effect of one write on the disk
DoOp(o) ==
    CASE o.op = "rename" ->
            /\ files' = files \cup {o.path}
            /\ entries' = Put(o.path, o.key, o.val, TRUE)
            /\ written' = written \cup {Art(o.path, o.key)}
      [] o.op = "h5open" ->
            /\ files' = files \cup {o.path}
            /\ written' = written \cup {Art(o.path, <<>>)}
            /\ UNCHANGED entries
      [] o.op = "h5create" ->
            /\ entries' = Put(o.path, o.key, o.val, FALSE)
            /\ written' = written \cup {Art(o.path, o.key)}
            /\ UNCHANGED files
      [] o.op = "h5fill" ->
            /\ entries' = Put(o.path, o.key, o.val, TRUE)
            /\ UNCHANGED <<files, written>>
      [] o.op = "h5close" ->
            UNCHANGED <<files, entries, written>>

\* the store a sequence of pending writes holds open in place
OpenStore(ops) ==
    IF ops # <<>> /\ ops[1].op \in {"h5create", "h5fill", "h5close"}
    THEN {ops[Len(ops)].path}
    ELSE {}

\* ------------------------------------------------------------------------
\* The pool
\* ------------------------------------------------------------------------
\* Pool.map: chunksize, extra = divmod(len(iterable), len(self._pool) * 4)
ChunkSize(n) ==
    IF n % (NumProcs * 4) = 0 THEN n \div (NumProcs * 4)
    ELSE n \div (NumProcs * 4) + 1

NumChunks(n) == IF n = 0 THEN 0 ELSE (n + ChunkSize(n) - 1) \div ChunkSize(n)

\* the indices of to_process in chunk number c
ChunkItems(n, c) ==
    LET first == (c - 1) * ChunkSize(n) + 1
        last == IF c * ChunkSize(n) < n THEN c * ChunkSize(n) ELSE n
    IN  [i \in 1..(last - first + 1) |-> first + i - 1]

IdleWorker == [cid |-> 0, chunk |-> <<>>, ops |-> <<>>]

\* a variant without the finally block: the exception leaves run() at once
AfterMapRaiseNoFinally == "raised"

\* where run() continues when pool.map raises: the finally block
AfterMapRaise == "close"

\* ------------------------------------------------------------------------
\* The GPU loop
\* ------------------------------------------------------------------------
\* (len(to_process) + self.batch_size - 1) / self.batch_size
NumBatches(n) == (n + cfg.batch_size - 1) \div cfg.batch_size

\* range(i * batch_size, min((i + 1) * batch_size, len(to_process))), shifted
\* to the 1-based indices of to_process
IdxRange(i, n) ==
    LET stop == IF (i + 1) * cfg.batch_size < n
                THEN (i + 1) * cfg.batch_size ELSE n
    IN  (i * cfg.batch_size + 1)..stop

FirstIdx(idx_range) == CHOOSE m \in idx_range : \A n \in idx_range : m <= n

\* every item read from row 0 of the batch
RowAlwaysFirst(idx_range, idx) == 0

\* for i, idx in enumerate(idx_range): the inner loops bind i to the
\* position of idx in the batch; the outer loop takes its next i from the
\* iterator of range(num_batches), whatever the inner loops bound i to
EnumerateIndex(idx_range, idx) == idx - FirstIdx(idx_range)

\* the image row i of X_batch was filled from in the first inner loop; row i
\* of the output of the inference function is computed from it
BatchRowSource(to_proc, idx_range, i) == to_proc[FirstIdx(idx_range) + i].fpath

\* the writes of an item with their content computed from the image src
FromSource(ops, src) ==
    [n \in DOMAIN ops |-> [ops[n] EXCEPT !.val.src = src]]

\* ------------------------------------------------------------------------
\* Initial state
\* ------------------------------------------------------------------------
\* the parameters of the tasks, with the defaults of their declarations
Configs(s) ==
    [serial : IF s \in StoreStages THEN BOOLEAN ELSE {FALSE},
     batch_size : IF s \in GpuStages THEN 1..BatchSize ELSE {BatchSize},
     curv_scales : IF s \in {"BlockCurvature", "CurvatureDescriptors"}
                   THEN ScaleLists ELSE {<<>>},
     descriptor_m : {<<2, 2>>},
     descriptor_s : {<<1, 2>>},
     uniform : {FALSE},
     feat_dim : {16},
     imsize : {256},
     scale : {4},
     trans_dims : {FALSE},
     num_keypoints : {50},
     curv_length : {1024},
     contour_length : {1024}]

RunLocalsInit ==
    /\ to_process = <<>>
    /\ queue = <<>>
    /\ workers = [w \in 1..NumProcs |-> IdleWorker]
    /\ pool_state = "none"
    /\ done_tasks = {}
    /\ failed_tasks = {}
    /\ exc = FALSE
    /\ next = 1
    /\ main_ops = <<>>
    /\ batch = 0
    /\ batch_rows = 0
    /\ start_files = {}
    /\ start_entries = {}
    /\ written = {}
    /\ calls = {}

StageInit ==
    /\ stage \in Stages
    /\ cfg \in Configs(stage)
    /\ input_list \in InputLists
    /\ bad \in BadCandidates
    /\ files = {}
    /\ entries = {}
    /\ torn = {}
    /\ pc = "idle"
    /\ reconfigured = 0
    /\ raised_on = {}
    /\ RunLocalsInit

\* the evaluation tasks before anything of them has run
SplitInit ==
    /\ sfiles = {}
    /\ spc = "idle"
    /\ sdq_i = 0
    /\ sdq_part = "database"
    /\ sdq_caller = "luigi"
    /\ out_i = 0
    /\ pd_files = {}
    /\ ppc = "idle"
    /\ pd_caller = "luigi"
    /\ rewritten = {}
    /\ last_result = "none"

\* ------------------------------------------------------------------------
\* The dependency cache: keypoints -> outline -> trailing_edge -> curvature
\* -> curvature_descriptor
\* ------------------------------------------------------------------------
\* largest number of annotations a table is computed for
MaxAnnots == 3

ChainTables == <<"keypoints", "outline", "trailing_edge", "curvature",
                 "curvature_descriptor">>

\* the parent table whose success column a stage reads
ChainParent == [outline |-> "keypoints", trailing_edge |-> "outline",
                curvature |-> "trailing_edge",
                curvature_descriptor |-> "curvature"]

DepcRow(success, value) == [success |-> success, value |-> value]

\* what a compute function of the plugin returns for one row: False and no
\* value when the upstream flag is False or its own computation fails
PluginRow(t, i, success, value) ==
    IF ~success \/ annots[i] = t
    THEN DepcRow(FALSE, "None")
    ELSE DepcRow(TRUE, <<t, i>>)

\* a compute function raises when it computes on a value that is missing
PluginRaises(success_list, values) ==
    \E i \in 1..Len(values) : success_list[i] /\ values[i] = "None"

\* a variant that does not read the upstream flags and takes every row as good
DepcSuccessListAllTrue(parent) == [i \in 1..Len(tables[parent]) |-> TRUE]

\* success_list = depc.get_native(parent, parent_rowid_list, 'success')
DepcSuccessList(parent) ==
    [i \in 1..Len(tables[parent]) |-> tables[parent][i].success]

\* depc.get_native(parent, parent_rowid_list, <value column>)
DepcValues(parent) ==
    [i \in 1..Len(tables[parent]) |-> tables[parent][i].value]

\* the keypoints stage: its flags come from the compute function alone
KeypointsDepc ==
    /\ annots # <<>>
    /\ tables["keypoints"] = <<>>
    /\ ~depc_error
    /\ tables' = [tables EXCEPT !["keypoints"] =
                    [i \in 1..Len(annots) |->
                        PluginRow("keypoints", i, TRUE, <<"segmentation", i>>)]]
    /\ UNCHANGED <<stage_vars, report_vars, reconfigured, split_vars, rank_vars, graph_vars,
                   desc_vars, annots, depc_error>>

\* a stage of the chain below keypoints: the rows of the parent are read,
\* handed to the compute function with their flags, and its result is
\* yielded row by row
ChainDepc(t) ==
    LET parent == ChainParent[t]
        success_list == DepcSuccessList(parent)
        values == DepcValues(parent)
    IN  /\ tables[t] = <<>>
        /\ ~depc_error
        /\ IF PluginRaises(success_list, values)
           THEN /\ depc_error' = TRUE
                /\ UNCHANGED tables
           ELSE /\ tables' = [tables EXCEPT ![t] =
                                [i \in 1..Len(values) |->
                                    PluginRow(t, i, success_list[i], values[i])]]
                /\ UNCHANGED depc_error
        /\ UNCHANGED <<stage_vars, report_vars, reconfigured, split_vars, rank_vars,
                       graph_vars, desc_vars, annots>>

\* the cache computes a table once the rows of its parents exist
OutlineDepc ==
    /\ tables["keypoints"] # <<>>
    /\ ChainDepc("outline")

TrailingEdgesDepc ==
    /\ tables["outline"] # <<>>
    /\ ChainDepc("trailing_edge")

CurvaturesDepc ==
    /\ tables["trailing_edge"] # <<>>
    /\ ChainDepc("curvature")

CurvatureDescriptorsDepc ==
    /\ tables["curvature"] # <<>>
    /\ ChainDepc("curvature_descriptor")

\* the dependency cache before any table is computed
DepcAtRest ==
    /\ annots = <<>>
    /\ tables = [t \in Range(ChainTables) |-> <<>>]
    /\ depc_error = FALSE

\* ------------------------------------------------------------------------
\* Scoring and ranking: dtw_alignment_cost and the results tasks
\* ------------------------------------------------------------------------
\* largest number of database identities
MaxIds == 3

\* largest number of query encounters evaluated by one results task
MaxQueries == 2

\* curvature vectors are the values 0..MaxVec
MaxVec == 1

\* the descriptor scores of DescriptorsId are the values 0..MaxCost
MaxCost == 1

ResultsTasks == {"TimeWarpingResults", "DescriptorsResults"}

\* identities; identity 0 is never in the database
Identities == 0..MaxIds

\* the lists of curvature vectors of a query encounter
VecLists == {<<v>> : v \in 0..MaxVec} \cup {<<MaxVec, 0>>}

\* the lists of curvature vectors of a database identity
DbVecLists == {<<0>>, <<MaxVec, 0>>}

\* the cost function handed over as simfunc: non-negative, and zero for
\* identical vectors
SimFunc(qcurv, dcurv) ==
    IF qcurv >= dcurv THEN qcurv - dcurv ELSE dcurv - qcurv

\* the inner loop scoring the first database vector only
DtwRowFirstOnly(qcurv, database_vectors, j) ==
    [m \in 1..Len(database_vectors) |-> SimFunc(qcurv, database_vectors[1])]

\* the inner loop of dtw_alignment_cost: row i of S, filled column by
\* column from the row of zeros
RECURSIVE DtwRow(_, _, _)
DtwRow(qcurv, database_vectors, j) ==
    IF j = 0 THEN [m \in 1..Len(database_vectors) |-> 0]
    ELSE [DtwRow(qcurv, database_vectors, j - 1) EXCEPT
             ![j] = SimFunc(qcurv, database_vectors[j])]

\* S = np.zeros((len(query_vectors), len(database_vectors))); S[i, j] =
\* simfunc(qcurv, dcurv) for every i, j
DtwAlignmentCost(query_vectors, database_vectors) ==
    [i \in 1..Len(query_vectors) |->
        DtwRow(query_vectors[i], database_vectors, Len(database_vectors))]

\* the smallest entry of a non-empty set of numbers
SetMin(S) == CHOOSE x \in S : \A y \in S : x <= y

\* result_matrix.min(axis=0)[0]: the smallest entry of the first column
MatrixMinFirstColumn(result_matrix) ==
    SetMin({result_matrix[i][1] : i \in 1..Len(result_matrix)})

\* result_matrix.min(axis=None): the smallest entry of the whole matrix
MatrixMin(result_matrix) ==
    SetMin({result_matrix[i][j] : i \in 1..Len(result_matrix),
                                  j \in 1..Len(result_matrix[1])})

\* the result_dict an identification task stored for a query encounter:
\* TimeWarpingId stores the cost matrix of the query against every
\* database identity, DescriptorsId a scalar per database identity
TimeWarpingResultDict(query_vectors) ==
    [dind \in Range(db_indivs) |->
        DtwAlignmentCost(query_vectors, db_curv[dind])]

DescriptorsResultDicts == [Range(db_indivs) -> 0..MaxCost]

\* scores[i] for i, dind in enumerate(db_indivs)
Scores(result_dict) ==
    [i \in 1..Len(db_indivs) |->
        IF rtask = "TimeWarpingResults"
        THEN MatrixMin(result_dict[db_indivs[i]])
        ELSE result_dict[db_indivs[i]]]

IndexOrders(n) ==
    {p \in [1..n -> 1..n] : \A i, j \in 1..n : p[i] = p[j] => i = j}

\* an index order that does not sort
ArgSortAnyOrder(scores) == IndexOrders(Len(scores))

\* np.argsort(scores) with the default kind: an index order that sorts the
\* scores; the default sort is not stable, so equal scores may come out in
\* any order
ArgSort(scores) ==
    {p \in IndexOrders(Len(scores)) :
        \A i \in 1..(Len(scores) - 1) : scores[p[i]] <= scores[p[i + 1]]}

\* [db_indivs[idx] for idx in asc_scores_idx]
RankedIndivs(asc_scores_idx) ==
    [i \in 1..Len(asc_scores_idx) |-> db_indivs[asc_scores_idx[i]]]

\* the rank with the position counted from 0
RankZeroBased(ranked_indivs, qind) ==
    IF qind \in Range(ranked_indivs)
    THEN SetMin({i \in 1..Len(ranked_indivs) : ranked_indivs[i] = qind}) - 1
    ELSE -1

\* try: rank = 1 + ranked_indivs.index(qind); except ValueError: rank = -1
Rank(ranked_indivs, qind) ==
    IF qind \in Range(ranked_indivs)
    THEN SetMin({i \in 1..Len(ranked_indivs) : ranked_indivs[i] = qind})
    ELSE -1

\* d[qind].append(rank) on a defaultdict(list)
AppendRank(d, qind, rank) ==
    [ind \in DOMAIN d \cup {qind} |->
        IF ind = qind
        THEN IF qind \in DOMAIN d THEN Append(d[qind], rank) ELSE <<rank>>
        ELSE d[ind]]

\* the rank list with an unknown identity entered behind the last rank
RecordRankWorst(d, qind, rank) ==
    AppendRank(d, qind, IF rank = -1 THEN Len(db_indivs) + 1 ELSE rank)

\* indiv_rank_indices after the try / except: the append follows the
\* index() call inside try, so it is skipped when index() raises
RecordRank(d, qind, rank) ==
    IF rank = -1 THEN d ELSE AppendRank(d, qind, rank)

\* the loop body of run() for one query encounter: score every database
\* identity, rank them, find the rank of the true identity, write the row
ResultsQuery ==
    /\ rpc = "all"
    /\ Len(all_rows) < MaxQueries
    /\ \E qind \in Identities, query_vectors \in VecLists :
       \E result_dict \in
             IF rtask = "TimeWarpingResults"
             THEN {TimeWarpingResultDict(query_vectors)}
             ELSE DescriptorsResultDicts :
       \E asc_scores_idx \in ArgSort(Scores(result_dict)) :
          LET scores == Scores(result_dict)
              ranked_indivs == RankedIndivs(asc_scores_idx)
              rank == Rank(ranked_indivs, qind)
          IN  /\ rtask = "DescriptorsResults" => query_vectors = <<0>>
              /\ all_rows' = Append(all_rows,
                     [qenc |-> Len(all_rows) + 1, qind |-> qind,
                      rank |-> rank, ranked_indivs |-> ranked_indivs,
                      scores |-> scores, query_vectors |-> query_vectors,
                      result_dict |-> result_dict])
              /\ indiv_rank_indices' =
                     RecordRank(indiv_rank_indices, qind, rank)
    /\ UNCHANGED <<stage_vars, report_vars, reconfigured, split_vars, depc_vars, graph_vars,
                   desc_vars, rtask,
                   db_indivs, db_curv, rpc, mrr_rows, topk_rows>>

\* the sum of the ranks of a list
RECURSIVE SumRanks(_)
SumRanks(ranks) ==
    IF ranks = <<>> THEN <<0, 1>>
    ELSE <<SumRanks(Tail(ranks))[1] + Head(ranks), 1>>

\* the sum of 1. / rank over a list of ranks, as <<numerator, denominator>>
RECURSIVE SumReciprocals(_)
SumReciprocals(ranks) ==
    IF ranks = <<>> THEN <<0, 1>>
    ELSE LET rest == SumReciprocals(Tail(ranks))
         IN  <<rest[1] * Head(ranks) + rest[2], rest[2] * Head(ranks)>>

\* the 'mrr' csv: per query identity with a known rank, the number of its
\* encounters and np.mean(1. / ranks) as <<numerator, denominator>>
ResultsMrr ==
    /\ rpc = "all"
    /\ rpc' = "mrr"
    /\ mrr_rows' =
           [qind \in DOMAIN indiv_rank_indices |->
               LET ranks == indiv_rank_indices[qind]
                   total == SumReciprocals(ranks)
               IN  [num |-> Len(ranks),
                    mrr |-> <<total[1], total[2] * Len(ranks)>>]]
    /\ UNCHANGED <<stage_vars, report_vars, reconfigured, split_vars, depc_vars, graph_vars,
                   desc_vars, rtask,
                   db_indivs, db_curv, all_rows, indiv_rank_indices,
                   topk_rows>>

\* rank_indices: the ranks of indiv_rank_indices in one list
RECURSIVE Flatten(_, _)
Flatten(d, keys) ==
    IF keys = {} THEN <<>>
    ELSE LET ind == CHOOSE x \in keys : \A y \in keys : x <= y
         IN  d[ind] \o Flatten(d, keys \ {ind})

RankIndices == Flatten(indiv_rank_indices, DOMAIN indiv_rank_indices)

\* (rank_indices == k).sum()
CountExactly(rank_indices, k) ==
    Cardinality({i \in 1..Len(rank_indices) : rank_indices[i] = k})

\* (rank_indices <= k).sum()
CountAtMost(rank_indices, k) ==
    Cardinality({i \in 1..Len(rank_indices) : rank_indices[i] <= k})

\* the 'topk' csv: for k in range(1, 1 + num_indivs), the accuracy
\* (100. / num_queries) * (rank_indices <= k).sum() as
\* <<numerator, denominator>>
ResultsTopk ==
    /\ rpc = "mrr"
    /\ LET rank_indices == RankIndices
           num_queries == Len(rank_indices)
           num_indivs == Cardinality(DOMAIN indiv_rank_indices)
       IN  IF num_indivs > 0 /\ num_queries = 0
           THEN \* 100. / num_queries raises ZeroDivisionError
                /\ rpc' = "raised"
                /\ UNCHANGED topk_rows
           ELSE /\ rpc' = "done"
                /\ topk_rows' =
                       [k \in 1..num_indivs |->
                           [k |-> k,
                            topk |-> <<100 * CountAtMost(rank_indices, k),
                                       num_queries>>]]
    /\ UNCHANGED <<stage_vars, report_vars, reconfigured, split_vars, depc_vars, graph_vars,
                   desc_vars, rtask,
                   db_indivs, db_curv, all_rows, indiv_rank_indices,
                   mrr_rows>>

\* the locals of run() before the loop over the query encounters
ResultsLocalsInit ==
    /\ rpc = "all"
    /\ all_rows = <<>>
    /\ indiv_rank_indices = <<>>
    /\ mrr_rows = <<>>
    /\ topk_rows = <<>>

\* no results task is evaluated
RankAtRest ==
    /\ rtask = "DescriptorsResults"
    /\ db_indivs = <<>>
    /\ db_curv = <<>>
    /\ ResultsLocalsInit

\* ------------------------------------------------------------------------
\* The dependency relations: requires() of the luigi tasks and parents of
\* the dependency cache tables
\* ------------------------------------------------------------------------
Tasks == {"PrepareData", "EncounterStats", "Preprocess", "Localization",
          "Segmentation", "Keypoints", "ExtractOutline", "SeparateEdges",
          "BlockCurvature", "SeparateDatabaseQueries", "GaussDescriptors",
          "CurvatureDescriptors", "DescriptorsId", "TimeWarpingId",
          "TimeWarpingResults", "DescriptorsResults", "VisualizeIndividuals",
          "VisualizeMisidentifications"}

DescriptorTypes == {"gauss", "curv"}

\* a relation in which every task requires itself
RequiresItself(task) == {task}

\* the tasks returned by requires() of a task
Requires(task) ==
    CASE task = "PrepareData" -> {}
      [] task = "EncounterStats" -> {"PrepareData"}
      [] task = "Preprocess" -> {"PrepareData"}
      [] task = "Localization" -> {"PrepareData", "Preprocess"}
      [] task = "Segmentation" -> {"PrepareData", "Localization"}
      [] task = "Keypoints" -> {"PrepareData", "Localization", "Segmentation"}
      [] task = "ExtractOutline" ->
             {"PrepareData", "Localization", "Segmentation", "Keypoints"}
      [] task = "SeparateEdges" ->
             {"PrepareData", "Localization", "ExtractOutline"}
      [] task = "BlockCurvature" -> {"PrepareData", "SeparateEdges"}
      [] task = "SeparateDatabaseQueries" -> {"PrepareData", "SeparateEdges"}
      [] task = "GaussDescriptors" -> {"PrepareData", "SeparateEdges"}
      [] task = "CurvatureDescriptors" -> {"PrepareData", "BlockCurvature"}
      [] task = "DescriptorsId" ->
             {"PrepareData", "SeparateDatabaseQueries",
              IF walk.descriptor_type = "gauss"
              THEN "GaussDescriptors" ELSE "CurvatureDescriptors"}
      [] task = "TimeWarpingId" ->
             {"PrepareData", "BlockCurvature", "SeparateDatabaseQueries"}
      [] task = "TimeWarpingResults" ->
             {"SeparateDatabaseQueries", "TimeWarpingId"}
      [] task = "DescriptorsResults" ->
             {"SeparateDatabaseQueries", "DescriptorsId"}
      [] task = "VisualizeIndividuals" -> {"PrepareData", "SeparateEdges"}
      [] task = "VisualizeMisidentifications" ->
             {"SeparateEdges", "SeparateDatabaseQueries", "BlockCurvature",
              "TimeWarpingId"}

Tables == {"annotations", "preprocess", "localization", "refinement",
           "segmentation", "keypoints", "outline", "trailing_edge",
           "curvature", "curvature_descriptor"}

\* parents=[...] of register_preproc_annot
Parents(table) ==
    CASE table = "annotations" -> <<>>
      [] table = "preprocess" -> <<"annotations">>
      [] table = "localization" -> <<"preprocess">>
      [] table = "refinement" -> <<"localization", "preprocess">>
      [] table = "segmentation" -> <<"refinement">>
      [] table = "keypoints" -> <<"segmentation", "localization">>
      [] table = "outline" -> <<"segmentation", "refinement", "keypoints">>
      [] table = "trailing_edge" -> <<"outline">>
      [] table = "curvature" -> <<"trailing_edge">>
      [] table = "curvature_descriptor" -> <<"curvature">>

\* the nodes one step up the relation walked
Upstream(node) ==
    IF walk.graph = "luigi" THEN Requires(node) ELSE Range(Parents(node))

Nodes == IF walk.graph = "luigi" THEN Tasks ELSE Tables

\* the tasks whose output() or get_input_list() a task's run() evaluates
\* through self.requires()[...], directly or in its own output() and
\* get_incomplete()
RunReads(task) ==
    CASE task = "PrepareData" -> {}
      [] task = "EncounterStats" -> {"PrepareData"}
      [] task = "Preprocess" -> {"PrepareData"}
      [] task = "Localization" -> {"PrepareData", "Preprocess"}
      [] task = "Segmentation" -> {"PrepareData", "Localization"}
      [] task = "Keypoints" -> {"PrepareData", "Localization", "Segmentation"}
      [] task = "ExtractOutline" ->
             {"PrepareData", "Localization", "Segmentation", "Keypoints"}
      [] task = "SeparateEdges" ->
             {"PrepareData", "Localization", "ExtractOutline"}
      [] task = "BlockCurvature" -> {"PrepareData", "SeparateEdges"}
      [] task = "SeparateDatabaseQueries" -> {"PrepareData", "SeparateEdges"}
      [] task = "GaussDescriptors" -> {"PrepareData", "SeparateEdges"}
      [] task = "CurvatureDescriptors" -> {"PrepareData", "BlockCurvature"}
      [] task = "DescriptorsId" ->
             {"SeparateDatabaseQueries",
              IF walk.descriptor_type = "gauss"
              THEN "GaussDescriptors" ELSE "CurvatureDescriptors"}
      [] task = "TimeWarpingId" ->
             {"BlockCurvature", "SeparateDatabaseQueries"}
      [] task = "TimeWarpingResults" ->
             {"TimeWarpingId", "SeparateDatabaseQueries"}
      [] task = "DescriptorsResults" ->
             {"DescriptorsId", "SeparateDatabaseQueries"}
      [] task = "VisualizeIndividuals" -> {"PrepareData", "SeparateEdges"}
      [] task = "VisualizeMisidentifications" ->
             {"SeparateEdges", "SeparateDatabaseQueries", "BlockCurvature",
              "TimeWarpingId"}

\* the tables a stage of the dependency cache names in depc.get_native and
\* depc.get_ancestor_rowids
NativeReads(table) ==
    CASE table = "annotations" -> {}
      [] table = "preprocess" -> {}
      [] table = "localization" -> {"preprocess"}
      [] table = "refinement" -> {"preprocess", "localization"}
      [] table = "segmentation" -> {"refinement"}
      [] table = "keypoints" -> {"segmentation", "localization"}
      [] table = "outline" -> {"keypoints", "refinement", "segmentation"}
      [] table = "trailing_edge" -> {"outline"}
      [] table = "curvature" -> {"trailing_edge"}
      [] table = "curvature_descriptor" -> {"curvature"}

\* the rowid lists taken in the order the parents are listed, last first
RowidArgsReversed(table) ==
    [i \in 1..Len(Parents(table)) |->
        Parents(table)[Len(Parents(table)) + 1 - i]]

\* the tables of the rowid-list parameters of a stage's function, in the
\* order of its signature (aid_list holds rowids of annotations)
RowidArgs(table) ==
    CASE table = "annotations" -> <<>>
      [] table = "preprocess" -> <<"annotations">>
      [] table = "localization" -> <<"preprocess">>
      [] table = "refinement" -> <<"localization", "preprocess">>
      [] table = "segmentation" -> <<"refinement">>
      [] table = "keypoints" -> <<"segmentation", "localization">>
      [] table = "outline" -> <<"segmentation", "refinement", "keypoints">>
      [] table = "trailing_edge" -> <<"outline">>
      [] table = "curvature" -> <<"trailing_edge">>
      [] table = "curvature_descriptor" -> <<"curvature">>

\* the scheduler resolves a requirement of the task it is at
Schedule ==
    /\ walk.graph = "luigi"
    /\ Len(walk.path) <= Cardinality(Tasks)
    /\ \E task \in Requires(walk.path[Len(walk.path)]) :
          walk' = [walk EXCEPT !.path = Append(@, task)]
    /\ UNCHANGED <<stage_vars, report_vars, reconfigured, split_vars, depc_vars, rank_vars,
                   desc_vars>>

\* the dependency cache resolves a parent of the table it is at
ResolveParent ==
    /\ walk.graph = "depc"
    /\ Len(walk.path) <= Cardinality(Tables)
    /\ \E table \in Range(Parents(walk.path[Len(walk.path)])) :
          walk' = [walk EXCEPT !.path = Append(@, table)]
    /\ UNCHANGED <<stage_vars, report_vars, reconfigured, split_vars, depc_vars, rank_vars,
                   desc_vars>>

\* no dependency is being resolved
GraphAtRest ==
    walk = [graph |-> "luigi", descriptor_type |-> "curv",
            path |-> <<"PrepareData">>]

\* ------------------------------------------------------------------------
\* DescriptorsId.run: per split, load the database descriptors, build one
\* index per scale, identify the query encounters
\* ------------------------------------------------------------------------
\* largest requested number of neighbours
MaxK == 2

\* largest number of identities in the database of a split
MaxDbIds == 2

\* largest number of images of a database identity
MaxFiles == 2

\* largest number of descriptor rows of an image at a scale
MaxRows == 1

\* largest number of query encounters of a split
MaxEncs == 2

\* _get_descriptor_scales()
DescriptorScaleLists == {<<"(2, 1)">>, <<"(2, 1)", "(2, 2)">>}

\* db_fpath_dict[dind]: the images of an identity, each given by its number
\* of descriptor rows
FileLists == UNION {[1..n -> 0..MaxRows] : n \in 0..MaxFiles}

\* the pickled database of a split: identities in dict order with their
\* images
DbFpathDicts ==
    UNION {{d \in [1..n -> [dind : 1..MaxDbIds, fpaths : FileLists]] :
               \A i, j \in 1..n : d[i].dind = d[j].dind => i = j}
           : n \in 0..MaxDbIds}

\* load_descriptors_from_h5py: the descriptor rows of an image at a scale
Descriptors(dind, f, nrows, s) ==
    [r \in 1..nrows |-> [owner |-> dind, fpath |-> f, scale |-> s, row |-> r]]

\* one label per image
LabelOncePerFile(dind, nrows) == <<dind>>

\* for _ in range(descriptors[s].shape[0]): db_names_dict[s].append(dind)
Labels(dind, nrows) == [r \in 1..nrows |-> dind]

\* the loop over the images of one identity, from image f on
RECURSIVE LoadFiles(_, _, _, _)
LoadFiles(dind, fpaths, f, s) ==
    IF f > Len(fpaths) THEN [names |-> <<>>, descs |-> <<>>]
    ELSE LET rest == LoadFiles(dind, fpaths, f + 1, s)
         IN  [names |-> Labels(dind, fpaths[f]) \o rest.names,
              descs |-> Descriptors(dind, f, fpaths[f], s) \o rest.descs]

\* the loop over dindivs, from identity i on; descs is the np.vstack of
\* the matrices appended
RECURSIVE LoadDatabase(_, _, _)
LoadDatabase(db, i, s) ==
    IF i > Len(db) THEN [names |-> <<>>, descs |-> <<>>]
    ELSE LET own == LoadFiles(db[i].dind, db[i].fpaths, 1, s)
             rest == LoadDatabase(db, i + 1, s)
         IN  [names |-> own.names \o rest.names,
              descs |-> own.descs \o rest.descs]

\* index_fpath_dict[s] before any build
NoIndex == [split |-> -1, state |-> "none"]

Raised(e, at) == [exc |-> e, at |-> at]

\* the locals of run() at the head of the loop over the splits
SplitLocalsInit ==
    /\ db_fpath_dict = <<>>
    /\ to_identify = <<>>
    /\ db_names_dict = <<>>
    /\ db_descs_dict = <<>>
    /\ builds = <<>>
    /\ id_queue = <<>>
    /\ id_running = {}

\* one turn of the loop over the splits up to the pool of index builds:
\* np.max of an empty list raises ValueError, a scale without any matrix
\* has no shape, the assertion compares the labels with the rows
LoadSplit ==
    /\ dpc = "split"
    /\ run_idx < runs
    /\ \E db \in DbFpathDicts, num_encs \in 0..MaxEncs :
          LET loaded == [s \in Range(dcfg.scales) |-> LoadDatabase(db, 1, s)]
              names == [s \in Range(dcfg.scales) |-> loaded[s].names]
              descs == [s \in Range(dcfg.scales) |-> loaded[s].descs]
          IN  /\ db_fpath_dict' = db
              /\ to_identify' = [e \in 1..num_encs |-> e]
              /\ IF db = <<>>
                 THEN /\ dpc' = "raised"
                      /\ dexc' = Raised("ValueError", "np.max(db_descs_list)")
                      /\ UNCHANGED <<db_names_dict, db_descs_dict, builds>>
                 ELSE IF num_encs = 0
                 THEN /\ dpc' = "raised"
                      /\ dexc' = Raised("ValueError", "np.max(qr_descs_list)")
                      /\ UNCHANGED <<db_names_dict, db_descs_dict, builds>>
                 ELSE /\ db_names_dict' = names
                      /\ db_descs_dict' = descs
                      /\ IF \A i \in 1..Len(db) : db[i].fpaths = <<>>
                         THEN \* nothing was appended: db_descs_dict[s] is
                              \* the empty list of the defaultdict
                              /\ dpc' = "raised"
                              /\ dexc' = Raised("AttributeError",
                                                "db_descs_dict[s].shape")
                              /\ UNCHANGED builds
                         ELSE IF \E s \in Range(dcfg.scales) :
                                Len(names[s]) # Len(descs[s])
                         THEN /\ dpc' = "raised"
                              /\ dexc' = Raised("AssertionError", "assert")
                              /\ UNCHANGED builds
                         ELSE /\ dpc' = "build"
                              /\ builds' = [s \in Range(dcfg.scales) |->
                                               "queued"]
                              /\ UNCHANGED dexc
    /\ UNCHANGED <<stage_vars, report_vars, reconfigured, split_vars, depc_vars, rank_vars,
                   graph_vars, dcfg, run_idx, ann, id_queue, id_running,
                   identified>>

\* a pool process starts build_annoy_index on (db_descs_dict[s],
\* index_fpath_dict[s])
BuildStart ==
    /\ dpc \in {"build", "build_raised"}
    /\ \E s \in DOMAIN builds :
          /\ builds[s] = "queued"
          /\ builds' = [builds EXCEPT ![s] = "running"]
          /\ ann' = [ann EXCEPT ![s] = [split |-> run_idx, state |-> "partial"]]
    /\ UNCHANGED <<stage_vars, report_vars, reconfigured, split_vars, depc_vars, rank_vars,
                   graph_vars, dcfg, db_fpath_dict, to_identify, dpc, run_idx,
                   db_names_dict, db_descs_dict, id_queue, id_running,
                   identified, dexc>>

\* the build of an index ends: the file is saved, or the build raises
BuildEnd ==
    /\ \E s \in DOMAIN builds : \E ok \in BOOLEAN :
          /\ builds[s] = "running"
          /\ builds' = [builds EXCEPT ![s] = IF ok THEN "done" ELSE "failed"]
          /\ ann' = IF ok THEN [ann EXCEPT ![s].state = "built"] ELSE ann
    /\ UNCHANGED <<stage_vars, report_vars, reconfigured, split_vars, depc_vars, rank_vars,
                   graph_vars, dcfg, db_fpath_dict, to_identify, dpc, run_idx,
                   db_names_dict, db_descs_dict, id_queue, id_running,
                   identified, dexc>>

\* pool.map of the builds raises the exception of a failed build
BuildMapRaise ==
    /\ dpc = "build"
    /\ \E s \in DOMAIN builds : builds[s] = "failed"
    /\ dpc' = "build_raised"
    /\ UNCHANGED <<stage_vars, report_vars, reconfigured, split_vars, depc_vars, rank_vars,
                   graph_vars, dcfg, db_fpath_dict, to_identify, run_idx,
                   db_names_dict, db_descs_dict, ann, builds, id_queue,
                   id_running, identified, dexc>>

\* finally: pool.close(); pool.join() returns when the builds have ended,
\* and the exception leaves run()
BuildJoinRaise ==
    /\ dpc = "build_raised"
    /\ \A s \in DOMAIN builds : builds[s] \in {"done", "failed"}
    /\ dpc' = "raised"
    /\ dexc' = Raised("Exception", "build_annoy_index")
    /\ UNCHANGED <<stage_vars, report_vars, reconfigured, split_vars, depc_vars, rank_vars,
                   graph_vars, dcfg, db_fpath_dict, to_identify, run_idx,
                   db_names_dict, db_descs_dict, ann, builds, id_queue,
                   id_running, identified>>

\* pool.map of the builds returns when every build has returned; the
\* incomplete encounters of the split are handed over for identification
BuildMapReturn ==
    /\ dpc = "build"
    /\ \A s \in DOMAIN builds : builds[s] = "done"
    /\ dpc' = "identify"
    /\ id_queue' = to_identify
    /\ UNCHANGED <<stage_vars, report_vars, reconfigured, split_vars, depc_vars, rank_vars,
                   graph_vars, dcfg, db_fpath_dict, to_identify, run_idx,
                   db_names_dict, db_descs_dict, ann, builds, id_running,
                   identified, dexc>>

\* identify_encounter_descriptors starts on the next encounter: it opens
\* the index files; the serial loop starts one call at a time
IdentifyStart ==
    /\ dpc \in {"identify", "identify_raised"}
    /\ id_queue # <<>>
    /\ dcfg.serial => (id_running = {} /\ dpc = "identify")
    /\ id_running' = id_running \cup
           {[split |-> run_idx, qenc |-> Head(id_queue), seen |-> ann,
             num_dindivs |-> Len(db_fpath_dict)]}
    /\ id_queue' = Tail(id_queue)
    /\ UNCHANGED <<stage_vars, report_vars, reconfigured, split_vars, depc_vars, rank_vars,
                   graph_vars, dcfg, db_fpath_dict, to_identify, dpc, run_idx,
                   db_names_dict, db_descs_dict, ann, builds, identified,
                   dexc>>

\* an identification ends: its result is written, or it raises; in the
\* serial loop the exception leaves run() at once
IdentifyEnd ==
    /\ \E q \in id_running : \E ok \in BOOLEAN :
          /\ id_running' = id_running \ {q}
          /\ identified' = IF ok THEN identified \cup {q} ELSE identified
          /\ IF ok \/ dpc # "identify"
             THEN UNCHANGED <<dpc, dexc>>
             ELSE IF dcfg.serial
             THEN /\ dpc' = "raised"
                  /\ dexc' = Raised("Exception", "identify_encounter")
             ELSE /\ dpc' = "identify_raised"
                  /\ UNCHANGED dexc
    /\ UNCHANGED <<stage_vars, report_vars, reconfigured, split_vars, depc_vars, rank_vars,
                   graph_vars, dcfg, db_fpath_dict, to_identify, run_idx,
                   db_names_dict, db_descs_dict, ann, builds, id_queue>>

\* the map returning once everything is handed to a worker
MapDoneEarly(pending, running) == pending = <<>>

\* pool.map (and the serial loop) is over when every item handed over has
\* been worked off
MapDone(pending, running) == pending = <<>> /\ running = {}

\* finally: pool.close(); pool.join(), and the exception leaves run()
IdentifyJoinRaise ==
    /\ dpc = "identify_raised"
    /\ MapDone(id_queue, id_running)
    /\ dpc' = "raised"
    /\ dexc' = Raised("Exception", "identify_encounter")
    /\ UNCHANGED <<stage_vars, report_vars, reconfigured, split_vars, depc_vars, rank_vars,
                   graph_vars, dcfg, db_fpath_dict, to_identify, run_idx,
                   db_names_dict, db_descs_dict, ann, builds, id_queue,
                   id_running, identified>>

\* the identifications of the split are over: the loop goes to the next
\* split, or run() returns
NextSplit ==
    /\ dpc = "identify"
    /\ MapDone(id_queue, id_running)
    /\ run_idx' = run_idx + 1
    /\ dpc' = IF run_idx + 1 < runs THEN "split" ELSE "done"
    /\ UNCHANGED <<stage_vars, report_vars, reconfigured, split_vars, depc_vars, rank_vars,
                   graph_vars, dcfg, db_fpath_dict, to_identify,
                   db_names_dict, db_descs_dict, ann, builds, id_queue,
                   id_running, identified, dexc>>

\* DescriptorsId is not running
DescAtRest ==
    /\ dcfg = [k |-> 1, serial |-> TRUE, scales |-> <<"(2, 1)">>]
    /\ dpc = "split"
    /\ run_idx = 0
    /\ ann = [s \in Range(dcfg.scales) |-> NoIndex]
    /\ identified = {}
    /\ dexc = Raised("none", "none")
    /\ SplitLocalsInit

\* ------------------------------------------------------------------------
\* SeparateDatabaseQueries.run before its loop over the splits: the images
\* with a trailing edge are collected
\* ------------------------------------------------------------------------
\* what a trailing-coords pickle can hold: None when no trailing edge could
\* be extracted, the coordinates otherwise; "missing" stands for no file
EdgeContents == {"None", "coords", "missing"}

\* trailing_edge_dict[fpath]['trailing-coords'].path
TrailingEdgePath(fpath) ==
    <<"data", "SeparateEdges", "trailing-coords", Fname(fpath), "pickle">>

\* d[key] = value of a dict held as a set of key/value pairs
DictSet(d, key, value) ==
    {kv \in d : kv.key # key} \cup {[key |-> key, value |-> value]}

\* run() is entered: the input list is read and the keys of the outputs of
\* SeparateEdges, one per distinct image path, are taken
CollectStart ==
    /\ cpc = "idle"
    /\ cpc' = "loop"
    /\ te_pending' = Range(te_input)
    /\ fname_trailing_edge_dict' = {}
    /\ UNCHANGED <<stage_vars, reconfigured, split_vars, eval_vars, aggr_vars,
                   te_input, te_artifacts>>

\* one turn of the loop over trailing_edge_filepaths, which come in the
\* order of the dict's keys: the pickle is opened and loaded; None is
\* skipped, anything else is entered under the base name of the image
CollectEdge ==
    /\ cpc = "loop"
    /\ \E fpath \in te_pending :
          LET trailing_edge == te_artifacts[TrailingEdgePath(fpath)]
          IN  /\ te_pending' = te_pending \ {fpath}
              /\ IF trailing_edge = "missing"
                 THEN /\ cpc' = "raised"
                      /\ UNCHANGED fname_trailing_edge_dict
                 ELSE /\ UNCHANGED cpc
                      /\ fname_trailing_edge_dict' =
                            IF trailing_edge = "None"
                            THEN fname_trailing_edge_dict
                            ELSE DictSet(fname_trailing_edge_dict,
                                         Fname(fpath), fpath)
    /\ UNCHANGED <<stage_vars, reconfigured, split_vars, eval_vars, aggr_vars,
                   te_input, te_artifacts>>

\* the loop is over: the dict is handed to separate_database_queries
CollectDone ==
    /\ cpc = "loop"
    /\ te_pending = {}
    /\ cpc' = "split"
    /\ UNCHANGED <<stage_vars, reconfigured, split_vars, eval_vars, aggr_vars,
                   te_input, te_artifacts, te_pending,
                   fname_trailing_edge_dict>>

\* SeparateDatabaseQueries.run has not been entered
CollectAtRest ==
    /\ te_input = <<<<"a", "x", "jpg">>>>
    /\ te_artifacts = [path \in {TrailingEdgePath(<<"a", "x", "jpg">>)} |-> "coords"]
    /\ te_pending = {}
    /\ fname_trailing_edge_dict = {}
    /\ cpc = "idle"

\* ------------------------------------------------------------------------
\* DescriptorsResults.run: the accuracies of the splits are stacked and
\* aggregated per k
\* ------------------------------------------------------------------------
\* indiv_rank_indices of a split: the query identities with a known rank,
\* each with the ranks of its encounters
RankDicts ==
    UNION {[S -> {<<r>> : r \in 1..MaxIds}] : S \in SUBSET (1..MaxIds)}

\* the accuracies the top-k loop of a split appends to topk_aggr[run_idx]:
\* (100. / num_queries) * (rank_indices <= k).sum() for k in
\* range(1, 1 + num_indivs), as <<numerator, denominator>>
TopkList(d) ==
    LET rank_indices == Flatten(d, DOMAIN d)
        num_queries == Len(rank_indices)
    IN  [k \in 1..Cardinality(DOMAIN d) |->
            <<100 * CountAtMost(rank_indices, k), num_queries>>]

\* a common multiple of all ranks and of all numbers of queries
RECURSIVE Factorial(_)
Factorial(n) == IF n = 0 THEN 1 ELSE n * Factorial(n - 1)

\* an accuracy in units of 1 / Factorial(MaxIds) percent
Units(topk) == topk[1] * (Factorial(MaxIds) \div topk[2])

RECURSIVE SumOver(_, _)
SumOver(f, S) ==
    IF S = {} THEN 0
    ELSE LET x == CHOOSE y \in S : TRUE
         IN  f[x] + SumOver(f, S \ {x})

\* aggr[i].mean(), .min(), .max() and .std() of one row of aggr, in units;
\* the mean and the variance (the square of std) as
\* <<numerator, denominator>>
Stats(row) ==
    LET u == [r \in DOMAIN row |-> Units(row[r])]
        sq == [r \in DOMAIN row |-> u[r] * u[r]]
        n == Cardinality(DOMAIN row)
        total == SumOver(u, DOMAIN row)
    IN  [mean |-> <<total, n>>,
         min |-> CHOOSE x \in {u[r] : r \in DOMAIN row} :
                     \A r \in DOMAIN row : x <= u[r],
         max |-> CHOOSE x \in {u[r] : r \in DOMAIN row} :
                     \A r \in DOMAIN row : x >= u[r],
         variance |-> <<n * SumOver(sq, DOMAIN row) - total * total, n * n>>]

\* one turn of the loop over range(self.runs), as far as the aggregation
\* sees it: the accuracies of the split are appended to topk_aggr[run_idx]
\* and num_indivs is rebound
AggrSplit ==
    /\ apc = "splits"
    /\ arun < runs
    /\ topk_aggr' = [topk_aggr EXCEPT ![arun] = TopkList(split_ranks[arun])]
    /\ agg_num_indivs' = Cardinality(DOMAIN split_ranks[arun])
    /\ arun' = arun + 1
    /\ UNCHANGED <<stage_vars, reconfigured, split_vars, eval_vars, collect_vars,
                   split_ranks, aggr, agg_rows, apc>>

\* aggr = np.vstack([topk_aggr[i] for i in range(self.runs)]).T: vstack
\* raises ValueError unless all the lists have the same length
AggrStack ==
    /\ apc = "splits"
    /\ arun = runs
    /\ IF \E i, j \in 0..(runs - 1) : Len(topk_aggr[i]) # Len(topk_aggr[j])
       THEN /\ apc' = "raised"
            /\ UNCHANGED aggr
       ELSE /\ apc' = "write"
            /\ aggr' = [i \in 1..Len(topk_aggr[0]) |->
                           [r \in 0..(runs - 1) |-> topk_aggr[r][i]]]
    /\ UNCHANGED <<stage_vars, reconfigured, split_vars, eval_vars, collect_vars,
                   split_ranks, arun, topk_aggr, agg_num_indivs, agg_rows>>

\* the with block of the 'agg' target: one row per k in
\* range(1, 1 + num_indivs)
AggrWrite ==
    /\ apc = "write"
    /\ agg_rows' = [i \in 1..agg_num_indivs |-> Stats(aggr[i])]
    /\ apc' = "done"
    /\ UNCHANGED <<stage_vars, reconfigured, split_vars, eval_vars, collect_vars,
                   split_ranks, arun, topk_aggr, agg_num_indivs, aggr>>

\* the locals of run() before its loop over the splits
AggrLocalsInit ==
    /\ arun = 0
    /\ topk_aggr = [r \in 0..(runs - 1) |-> <<>>]
    /\ agg_num_indivs = 0
    /\ aggr = <<>>
    /\ agg_rows = <<>>
    /\ apc = "splits"

\* DescriptorsResults is not aggregating
AggrAtRest ==
    /\ split_ranks = [r \in 0..(runs - 1) |-> <<>>]
    /\ AggrLocalsInit

ReportAtRest == CollectAtRest /\ AggrAtRest

EvalAtRest == DepcAtRest /\ RankAtRest /\ GraphAtRest /\ DescAtRest

Init ==
    /\ StageInit
    /\ runs = 1
    /\ SplitInit
    /\ ReportAtRest
    /\ EvalAtRest

\* ------------------------------------------------------------------------
\* run()
\* ------------------------------------------------------------------------
params == <<stage, cfg, input_list, bad, reconfigured, split_vars, eval_vars,
            report_vars>>
fixed == <<params, raised_on>>
disk == <<files, entries, torn>>
pool == <<queue, workers, pool_state, done_tasks, failed_tasks>>
loop == <<next, main_ops, batch, batch_rows>>
start == <<start_files, start_entries>>

\* the locals of run() are gone once run() has returned or the process died
ResetRun ==
    /\ to_process' = <<>>
    /\ queue' = <<>>
    /\ workers' = [w \in 1..NumProcs |-> IdleWorker]
    /\ pool_state' = "none"
    /\ done_tasks' = {}
    /\ failed_tasks' = {}
    /\ exc' = FALSE
    /\ next' = 1
    /\ main_ops' = <<>>
    /\ batch' = 0
    /\ batch_rows' = 0
    /\ start_files' = {}
    /\ start_entries' = {}
    /\ written' = {}
    /\ calls' = {}

\* run() up to and including to_process = self.get_incomplete()
StartRun ==
    /\ pc = "idle"
    /\ IF KeyErrors(stage) = {}
       THEN /\ pc' = "ready"
            /\ to_process' = GetIncomplete(stage)
            /\ UNCHANGED exc
       ELSE /\ pc' = "raised"
            /\ exc' = TRUE
            /\ UNCHANGED to_process
    /\ start_files' = files
    /\ start_entries' = entries
    /\ UNCHANGED <<fixed, disk, pool, loop, written, calls>>

\* pool = mp.Pool(processes=None); pool.map(partial_worker, to_process)
PoolMap ==
    /\ pc = "ready"
    /\ stage \in PoolStages \/ (stage \in StoreStages /\ ~cfg.serial)
    /\ pc' = "map"
    /\ queue' = [c \in 1..NumChunks(Len(to_process)) |-> c]
    /\ pool_state' = "run"
    /\ UNCHANGED <<fixed, disk, to_process, workers, done_tasks, failed_tasks,
                   exc, loop, start, written, calls>>

\* a pool worker takes the next chunk of the task queue
WorkerTake(w) ==
    /\ pc \in {"map", "close", "join"}
    /\ workers[w].cid = 0
    /\ queue # <<>>
    /\ workers' = [workers EXCEPT ![w] =
                      [cid |-> Head(queue),
                       chunk |-> ChunkItems(Len(to_process), Head(queue)),
                       ops |-> <<>>]]
    /\ queue' = Tail(queue)
    /\ UNCHANGED <<fixed, disk, pc, to_process, pool_state, done_tasks,
                   failed_tasks, exc, loop, start, written, calls>>

\* the worker calls the worker function on the next item of its chunk; an
\* exception ends the chunk and is sent back as the chunk's result
WorkerCall(w) ==
    /\ pc # "idle"
    /\ workers[w].cid # 0
    /\ workers[w].ops = <<>>
    /\ workers[w].chunk # <<>>
    /\ LET i == Head(workers[w].chunk)
       IN  /\ calls' = calls \cup {i}
           /\ IF to_process[i].fpath \in bad
              THEN /\ failed_tasks' = failed_tasks \cup {workers[w].cid}
                   /\ workers' = [workers EXCEPT ![w] = IdleWorker]
                   /\ raised_on' = raised_on \cup {to_process[i].fpath}
              ELSE /\ workers' = [workers EXCEPT
                          ![w].chunk = Tail(workers[w].chunk),
                          ![w].ops = ItemOps(stage, to_process[i])]
                   /\ UNCHANGED <<failed_tasks, raised_on>>
    /\ UNCHANGED <<params, disk, pc, to_process, queue, pool_state, done_tasks,
                   exc, loop, start, written>>

\* the worker function makes its next write
WorkerStep(w) ==
    /\ pc # "idle"
    /\ workers[w].ops # <<>>
    /\ LET o == Head(workers[w].ops)
       IN  IF OpRaises(o)
           THEN /\ failed_tasks' = failed_tasks \cup {workers[w].cid}
                /\ workers' = [workers EXCEPT ![w] = IdleWorker]
                /\ UNCHANGED <<files, entries, written>>
           ELSE /\ DoOp(o)
                /\ workers' = [workers EXCEPT ![w].ops = Tail(workers[w].ops)]
                /\ UNCHANGED failed_tasks
    /\ UNCHANGED <<fixed, torn, pc, to_process, queue, pool_state, done_tasks,
                   exc, loop, start, calls>>

\* the chunk is finished and its result is sent back
WorkerFinish(w) ==
    /\ pc # "idle"
    /\ workers[w].cid # 0
    /\ workers[w].ops = <<>>
    /\ workers[w].chunk = <<>>
    /\ done_tasks' = done_tasks \cup {workers[w].cid}
    /\ workers' = [workers EXCEPT ![w] = IdleWorker]
    /\ UNCHANGED <<fixed, disk, pc, to_process, queue, pool_state,
                   failed_tasks, exc, loop, start, written, calls>>

\* pool.map returns once every chunk has succeeded
MapReturn ==
    /\ pc = "map"
    /\ failed_tasks = {}
    /\ done_tasks = 1..NumChunks(Len(to_process))
    /\ pc' = "close"
    /\ UNCHANGED <<fixed, disk, to_process, pool, exc, loop, start, written,
                   calls>>

\* pool.map raises as soon as the result of a failed chunk has arrived
MapRaise ==
    /\ pc = "map"
    /\ failed_tasks # {}
    /\ pc' = AfterMapRaise
    /\ exc' = TRUE
    /\ UNCHANGED <<fixed, disk, to_process, pool, loop, start, written, calls>>

\* finally: pool.close()
PoolClose ==
    /\ pc = "close"
    /\ pc' = "join"
    /\ pool_state' = "closed"
    /\ UNCHANGED <<fixed, disk, to_process, queue, workers, done_tasks,
                   failed_tasks, exc, loop, start, written, calls>>

\* finally: pool.join() returns when the queue is drained and the workers
\* have exited; then run() returns or the exception goes on
PoolJoin ==
    /\ pc = "join"
    /\ queue = <<>>
    /\ \A w \in 1..NumProcs : workers[w] = IdleWorker
    /\ pc' = IF exc THEN "raised" ELSE "returned"
    /\ pool_state' = "joined"
    /\ UNCHANGED <<fixed, disk, to_process, queue, workers, done_tasks,
                   failed_tasks, exc, loop, start, written, calls>>

\* if self.serial: for fpath in to_process: ...
SerialLoop ==
    /\ pc = "ready"
    /\ stage \in StoreStages /\ cfg.serial
    /\ pc' = "serial"
    /\ UNCHANGED <<fixed, disk, to_process, pool, exc, loop, start, written,
                   calls>>

\* one iteration of the serial loop calls the worker function in-process
SerialCall ==
    /\ pc = "serial"
    /\ main_ops = <<>>
    /\ next <= Len(to_process)
    /\ calls' = calls \cup {next}
    /\ IF to_process[next].fpath \in bad
       THEN /\ pc' = "raised"
            /\ exc' = TRUE
            /\ raised_on' = raised_on \cup {to_process[next].fpath}
            /\ UNCHANGED <<next, main_ops>>
       ELSE /\ main_ops' = ItemOps(stage, to_process[next])
            /\ next' = next + 1
            /\ UNCHANGED <<pc, exc, raised_on>>
    /\ UNCHANGED <<params, disk, to_process, pool, batch, batch_rows, start,
                   written>>

\* the orchestrating process makes the next write of the current item
MainStep ==
    /\ pc \in {"serial", "gpuwrite"}
    /\ main_ops # <<>>
    /\ LET o == Head(main_ops)
       IN  IF OpRaises(o)
           THEN /\ pc' = "raised"
                /\ exc' = TRUE
                /\ main_ops' = <<>>
                /\ UNCHANGED <<files, entries, written>>
           ELSE /\ DoOp(o)
                /\ main_ops' = Tail(main_ops)
                /\ UNCHANGED <<pc, exc>>
    /\ UNCHANGED <<fixed, torn, to_process, pool, next, batch, batch_rows,
                   start, calls>>

SerialDone ==
    /\ pc = "serial"
    /\ main_ops = <<>>
    /\ next > Len(to_process)
    /\ pc' = "returned"
    /\ UNCHANGED <<fixed, disk, to_process, pool, exc, loop, start, written,
                   calls>>

\* the GPU stages do not parallelize: for i in range(num_batches)
GpuLoop ==
    /\ pc = "ready"
    /\ stage \in GpuStages
    /\ pc' = "gpu"
    /\ UNCHANGED <<fixed, disk, to_process, pool, exc, loop, start, written,
                   calls>>

\* the batch is allocated with len(idx_range) rows, filled from the upstream
\* artifacts of its items and handed to the inference function
GpuBatch ==
    /\ pc = "gpu"
    /\ batch < NumBatches(Len(to_process))
    /\ LET idx_range == IdxRange(batch, Len(to_process))
           failing == {idx \in idx_range : to_process[idx].fpath \in bad}
       IN  /\ calls' = calls \cup idx_range
           /\ IF failing # {}
              THEN /\ pc' = "raised"
                   /\ exc' = TRUE
                   /\ raised_on' = raised_on \cup
                         {to_process[idx].fpath : idx \in
                            {m \in failing : \A n \in failing : m <= n}}
                   /\ UNCHANGED batch_rows
              ELSE /\ pc' = "gpuwrite"
                   /\ batch_rows' = Cardinality(idx_range)
                   /\ UNCHANGED <<exc, raised_on>>
    /\ UNCHANGED <<params, disk, to_process, pool, next, main_ops, batch, start,
                   written>>

\* the second inner loop: the artifacts of the next item of the batch
GpuWrite ==
    /\ pc = "gpuwrite"
    /\ main_ops = <<>>
    /\ next \in IdxRange(batch, Len(to_process))
    /\ LET idx_range == IdxRange(batch, Len(to_process))
           i == EnumerateIndex(idx_range, next)
       IN  main_ops' = FromSource(ItemOps(stage, to_process[next]),
                                  BatchRowSource(to_process, idx_range, i))
    /\ next' = next + 1
    /\ UNCHANGED <<fixed, disk, pc, to_process, pool, exc, batch, batch_rows,
                   start, written, calls>>

GpuNextBatch ==
    /\ pc = "gpuwrite"
    /\ main_ops = <<>>
    /\ next \notin IdxRange(batch, Len(to_process))
    /\ batch' = batch + 1
    /\ pc' = "gpu"
    /\ UNCHANGED <<fixed, disk, to_process, pool, exc, next, main_ops,
                   batch_rows, start, written, calls>>

GpuDone ==
    /\ pc = "gpu"
    /\ batch >= NumBatches(Len(to_process))
    /\ pc' = "returned"
    /\ UNCHANGED <<fixed, disk, to_process, pool, exc, loop, start, written,
                   calls>>

\* control is back in the scheduler; the task may be run again
Return ==
    /\ pc \in {"returned", "raised"}
    /\ pc' = "idle"
    /\ ResetRun
    /\ UNCHANGED <<fixed, disk>>

\* the run is interrupted: every process of the run dies where it stands
Kill ==
    /\ pc \in {"ready", "map", "close", "join", "serial", "gpu", "gpuwrite"}
    /\ pc' = "idle"
    /\ torn' = torn \cup OpenStore(main_ops)
                    \cup UNION {OpenStore(workers[w].ops) : w \in 1..NumProcs}
    /\ ResetRun
    /\ UNCHANGED <<fixed, files, entries>>

Next ==
    \/ StartRun
    \/ PoolMap
    \/ \E w \in 1..NumProcs : WorkerTake(w)
    \/ \E w \in 1..NumProcs : WorkerCall(w)
    \/ \E w \in 1..NumProcs : WorkerStep(w)
    \/ \E w \in 1..NumProcs : WorkerFinish(w)
    \/ MapReturn
    \/ MapRaise
    \/ PoolClose
    \/ PoolJoin
    \/ SerialLoop
    \/ SerialCall
    \/ MainStep
    \/ SerialDone
    \/ GpuLoop
    \/ GpuBatch
    \/ GpuWrite
    \/ GpuNextBatch
    \/ GpuDone
    \/ Return
    \/ Kill

Spec == Init /\ [][Next]_vars

\* ------------------------------------------------------------------------
\* The pipeline invoked again with other parameter values
\* ------------------------------------------------------------------------
\* how often the parameters change in a behaviour
MaxReconf == 1

\* a second value for each parameter a worker function is given
AltValue ==
    [imsize |-> 128, scale |-> 2, trans_dims |-> TRUE, num_keypoints |-> 32,
     feat_dim |-> 32, curv_length |-> 512, contour_length |-> 512,
     uniform |-> TRUE]

\* between two runs the task is instantiated with another value for one of
\* the parameters that its run() passes to the worker function
Reconfigure ==
    /\ pc = "idle"
    /\ reconfigured < MaxReconf
    /\ \E opt \in DOMAIN WorkerParams(stage) :
            /\ cfg[opt] # AltValue[opt]
            /\ cfg' = [cfg EXCEPT ![opt] = AltValue[opt]]
    /\ reconfigured' = reconfigured + 1
    /\ UNCHANGED <<stage, input_list, bad, split_vars, disk, pool, loop, start,
                   pc, to_process, exc, written, calls, raised_on, eval_vars,
                   report_vars>>

ReconfInit ==
    /\ Init
    /\ Len(input_list) = 1

ReconfNext ==
    \/ Next
    \/ Reconfigure

SpecReconf == ReconfInit /\ [][ReconfNext]_vars

\* ------------------------------------------------------------------------
\* PrepareData, SeparateDatabaseQueries and the output() of the
\* identification tasks
\* ------------------------------------------------------------------------
\* largest value of the runs parameter
MaxRuns == 2

SplitTarget(kind, i) == <<"SeparateDatabaseQueries", kind, i>>

\* SeparateDatabaseQueries.output()
SeparateDatabaseQueriesOutput ==
    [kind \in {"database", "queries"} |->
        [i \in 0..(runs - 1) |-> SplitTarget(kind, i)]]

\* PrepareData.output()
PrepareDataOutput == [csv |-> <<"PrepareData", "csv">>,
                      pkl |-> <<"PrepareData", "pickle">>]

\* luigi.Task.complete() of a task that does not override it
SplitsComplete ==
    \A kind \in {"database", "queries"} : \A i \in 0..(runs - 1) :
        SeparateDatabaseQueriesOutput[kind][i] \in sfiles

PrepareDataComplete ==
    \A k \in {"csv", "pkl"} : PrepareDataOutput[k] \in pd_files

\* a write of path by a run() that was called by `by`
Rewrites(existing, path, by) ==
    IF path \in existing THEN {[path |-> path, by |-> by]} ELSE {}

split_sdq == <<sdq_i, sdq_part, sdq_caller>>
split_pd == <<pd_files, ppc, pd_caller>>

\* the scheduler runs SeparateDatabaseQueries because it is not complete; the
\* loop over the splits is reached once the input list and the trailing
\* edges were read
SeparateDatabaseQueriesRun ==
    /\ spc = "idle"
    /\ ~SplitsComplete
    /\ PrepareDataComplete
    /\ spc' = "sdq"
    /\ sdq_i' = 0
    /\ sdq_part' = "database"
    /\ sdq_caller' = "luigi"
    /\ UNCHANGED <<stage_vars, eval_vars, report_vars, reconfigured, runs, sfiles, out_i, split_pd,
                   rewritten, last_result>>

\* one with block of the loop over range(self.runs): the split file of the
\* iteration is written, whether it exists or not
SplitWrite ==
    /\ spc = "sdq"
    /\ sdq_i < runs
    /\ LET path == SeparateDatabaseQueriesOutput[sdq_part][sdq_i]
       IN  /\ sfiles' = sfiles \cup {path}
           /\ rewritten' = rewritten \cup Rewrites(sfiles, path, sdq_caller)
    /\ IF sdq_part = "database"
       THEN sdq_part' = "queries" /\ sdq_i' = sdq_i
       ELSE sdq_part' = "database" /\ sdq_i' = sdq_i + 1
    /\ UNCHANGED <<stage_vars, eval_vars, report_vars, reconfigured, runs, spc, sdq_caller, out_i,
                   split_pd, last_result>>

\* SeparateDatabaseQueries.run() returns to its caller
SplitReturn ==
    /\ spc = "sdq"
    /\ sdq_i = runs
    /\ spc' = IF sdq_caller = "DescriptorsId.output" THEN "out" ELSE "idle"
    /\ UNCHANGED <<stage_vars, eval_vars, report_vars, reconfigured, runs, sfiles, split_sdq, out_i,
                   split_pd, rewritten, last_result>>

\* DescriptorsId.output() is entered
DescriptorsIdOutput ==
    /\ spc = "idle"
    /\ PrepareDataComplete
    /\ spc' = "out"
    /\ out_i' = 0
    /\ last_result' = "none"
    /\ UNCHANGED <<stage_vars, eval_vars, report_vars, reconfigured, runs, sfiles, split_sdq, split_pd,
                   rewritten>>

\* one iteration of the loop of DescriptorsId.output(): the query split i is
\* read, after a call of SeparateDatabaseQueries.run() when it is missing
DescriptorsIdOutputLoop ==
    /\ spc = "out"
    /\ out_i < runs
    /\ IF SeparateDatabaseQueriesOutput["queries"][out_i] \notin sfiles
       THEN /\ spc' = "sdq"
            /\ sdq_i' = 0
            /\ sdq_part' = "database"
            /\ sdq_caller' = "DescriptorsId.output"
            /\ UNCHANGED out_i
       ELSE /\ out_i' = out_i + 1
            /\ UNCHANGED <<spc, split_sdq>>
    /\ UNCHANGED <<stage_vars, eval_vars, report_vars, reconfigured, runs, sfiles, split_pd, rewritten,
                   last_result>>

DescriptorsIdOutputReturn ==
    /\ spc = "out"
    /\ out_i = runs
    /\ spc' = "idle"
    /\ last_result' = "targets"
    /\ UNCHANGED <<stage_vars, eval_vars, report_vars, reconfigured, runs, sfiles, split_sdq, out_i,
                   split_pd, rewritten>>

\* TimeWarpingId.output() asks the list output()['queries'] whether it
\* exists(): a list has no such attribute
TimeWarpingIdOutput ==
    /\ spc = "idle"
    /\ last_result' = "AttributeError"
    /\ UNCHANGED <<stage_vars, eval_vars, report_vars, reconfigured, runs, sfiles, spc, split_sdq,
                   out_i, split_pd, rewritten>>

\* TimeWarpingId.run() takes the outputs of BlockCurvature, then reads .path
\* of the lists output()['database'] and output()['queries']
TimeWarpingIdRun ==
    /\ spc = "idle"
    /\ PrepareDataComplete
    /\ last_result' = "AttributeError"
    /\ UNCHANGED <<stage_vars, eval_vars, report_vars, reconfigured, runs, sfiles, spc, split_sdq,
                   out_i, split_pd, rewritten>>

\* TimeWarpingResults.run() starts with TimeWarpingId.output(), which
\* raises; past it, it would call open() on the list output()['database']
TimeWarpingResultsRun ==
    /\ spc = "idle"
    /\ SplitsComplete
    /\ last_result' = "AttributeError"
    /\ UNCHANGED <<stage_vars, eval_vars, report_vars, reconfigured, runs, sfiles, spc, split_sdq,
                   out_i, split_pd, rewritten>>

\* the process evaluating output() or running the task dies
SplitKill ==
    /\ spc \in {"sdq", "out"}
    /\ spc' = "idle"
    /\ UNCHANGED <<stage_vars, eval_vars, report_vars, reconfigured, runs, sfiles, split_sdq, out_i,
                   split_pd, rewritten, last_result>>

split_run == <<runs, sfiles, spc, split_sdq, out_i>>

\* the scheduler runs PrepareData because it is not complete
PrepareDataRun ==
    /\ ppc = "idle"
    /\ ~PrepareDataComplete
    /\ ppc' = "csv"
    /\ pd_caller' = "luigi"
    /\ UNCHANGED <<stage_vars, eval_vars, report_vars, reconfigured, split_run, pd_files, rewritten,
                   last_result>>

\* PrepareData.get_input_list() up to the decision whether to run()
GetInputList ==
    /\ ppc = "idle"
    /\ spc = "idle"
    /\ IF PrepareDataOutput.csv \notin pd_files
       THEN ppc' = "csv" /\ pd_caller' = "get_input_list"
       ELSE ppc' = "read" /\ UNCHANGED pd_caller
    /\ last_result' = "none"
    /\ UNCHANGED <<stage_vars, eval_vars, report_vars, reconfigured, split_run, pd_files, rewritten>>

\* PrepareData.run(): the with block of the csv
PrepareDataWriteCsv ==
    /\ ppc = "csv"
    /\ pd_files' = pd_files \cup {PrepareDataOutput.csv}
    /\ rewritten' = rewritten
                    \cup Rewrites(pd_files, PrepareDataOutput.csv, pd_caller)
    /\ ppc' = "pkl"
    /\ UNCHANGED <<stage_vars, eval_vars, report_vars, reconfigured, split_run, pd_caller, last_result>>

\* PrepareData.run(): the with block of the pickle; run() returns
PrepareDataWritePkl ==
    /\ ppc = "pkl"
    /\ pd_files' = pd_files \cup {PrepareDataOutput.pkl}
    /\ rewritten' = rewritten
                    \cup Rewrites(pd_files, PrepareDataOutput.pkl, pd_caller)
    /\ ppc' = IF pd_caller = "get_input_list" THEN "read" ELSE "idle"
    /\ UNCHANGED <<stage_vars, eval_vars, report_vars, reconfigured, split_run, pd_caller, last_result>>

\* get_input_list() opens the pickle and loads the list
GetInputListRead ==
    /\ ppc = "read"
    /\ last_result' = IF PrepareDataOutput.pkl \in pd_files
                      THEN "input_list" ELSE "IOError"
    /\ ppc' = "idle"
    /\ UNCHANGED <<stage_vars, eval_vars, report_vars, reconfigured, split_run, pd_files, pd_caller,
                   rewritten>>

\* the process running PrepareData dies
PrepareDataKill ==
    /\ ppc \in {"csv", "pkl", "read"}
    /\ ppc' = "idle"
    /\ UNCHANGED <<stage_vars, eval_vars, report_vars, reconfigured, split_run, pd_files, pd_caller,
                   rewritten, last_result>>

\* the per-image stages are at rest while the evaluation tasks act
StageAtRest ==
    /\ stage = "SeparateEdges"
    /\ cfg \in Configs(stage)
    /\ input_list = <<<<"a", "x", "jpg">>>>
    /\ bad = {}
    /\ files = {}
    /\ entries = {}
    /\ torn = {}
    /\ pc = "idle"
    /\ reconfigured = 0
    /\ raised_on = {}
    /\ RunLocalsInit

SplitSpecInit ==
    /\ StageAtRest
    /\ runs \in 1..MaxRuns
    /\ SplitInit
    /\ ReportAtRest
    /\ EvalAtRest

SplitNext ==
    \/ SeparateDatabaseQueriesRun
    \/ SplitWrite
    \/ SplitReturn
    \/ DescriptorsIdOutput
    \/ DescriptorsIdOutputLoop
    \/ DescriptorsIdOutputReturn
    \/ TimeWarpingIdOutput
    \/ TimeWarpingIdRun
    \/ TimeWarpingResultsRun
    \/ SplitKill
    \/ PrepareDataRun
    \/ GetInputList
    \/ PrepareDataWriteCsv
    \/ PrepareDataWritePkl
    \/ GetInputListRead
    \/ PrepareDataKill

SplitSpec == SplitSpecInit /\ [][SplitNext]_vars

\* ------------------------------------------------------------------------
\* SeparateDatabaseQueries.run over every input list and every content of
\* the trailing-coords files of its images
\* ------------------------------------------------------------------------
CollectSpecInit ==
    /\ StageAtRest
    /\ runs = 1
    /\ SplitInit
    /\ EvalAtRest
    /\ AggrAtRest
    /\ te_input \in InputLists
    /\ te_artifacts \in [{TrailingEdgePath(f) : f \in Range(te_input)}
                            -> EdgeContents]
    /\ te_pending = {}
    /\ fname_trailing_edge_dict = {}
    /\ cpc = "idle"

CollectNext ==
    \/ CollectStart
    \/ CollectEdge
    \/ CollectDone

CollectSpec == CollectSpecInit /\ [][CollectNext]_vars

\* ------------------------------------------------------------------------
\* The aggregation of DescriptorsResults.run over one or more splits
\* ------------------------------------------------------------------------
AggrSpecInit ==
    /\ StageAtRest
    /\ runs \in 1..MaxRuns
    /\ SplitInit
    /\ EvalAtRest
    /\ CollectAtRest
    /\ split_ranks \in [0..(runs - 1) -> RankDicts]
    /\ AggrLocalsInit

AggrNext ==
    \/ AggrSplit
    \/ AggrStack
    \/ AggrWrite

AggrSpec == AggrSpecInit /\ [][AggrNext]_vars

\* ------------------------------------------------------------------------
\* The dependency cache computed for a list of annotations
\* ------------------------------------------------------------------------
DepcSpecInit ==
    /\ StageAtRest
    /\ runs = 1
    /\ SplitInit
    /\ ReportAtRest
    /\ annots \in UNION {[1..n -> Range(ChainTables) \cup {"never"}] :
                            n \in 1..MaxAnnots}
    /\ tables = [t \in Range(ChainTables) |-> <<>>]
    /\ depc_error = FALSE
    /\ RankAtRest
    /\ GraphAtRest
    /\ DescAtRest

DepcNext ==
    \/ KeypointsDepc
    \/ OutlineDepc
    \/ TrailingEdgesDepc
    \/ CurvaturesDepc
    \/ CurvatureDescriptorsDepc

DepcSpec == DepcSpecInit /\ [][DepcNext]_vars

\* ------------------------------------------------------------------------
\* A results task evaluated over a database and a list of query encounters
\* ------------------------------------------------------------------------
\* db_dict.keys(): the database identities, each once, in dict order
DbIndivLists ==
    UNION {{d \in [1..n -> 1..MaxIds] :
               \A i, j \in 1..n : d[i] = d[j] => i = j} : n \in 1..MaxIds}

RankSpecInit ==
    /\ StageAtRest
    /\ runs = 1
    /\ SplitInit
    /\ ReportAtRest
    /\ DepcAtRest
    /\ GraphAtRest
    /\ DescAtRest
    /\ rtask \in ResultsTasks
    /\ db_indivs \in DbIndivLists
    /\ db_curv \in [Range(db_indivs) -> DbVecLists]
    /\ rtask = "DescriptorsResults" =>
           db_curv = [dind \in Range(db_indivs) |-> <<0>>]
    /\ ResultsLocalsInit

RankNext ==
    \/ ResultsQuery
    \/ ResultsMrr
    \/ ResultsTopk

RankSpec == RankSpecInit /\ [][RankNext]_vars

\* ------------------------------------------------------------------------
\* Dependencies resolved from any task and from any table
\* ------------------------------------------------------------------------
GraphSpecInit ==
    /\ StageAtRest
    /\ runs = 1
    /\ SplitInit
    /\ ReportAtRest
    /\ DepcAtRest
    /\ RankAtRest
    /\ DescAtRest
    /\ \/ \E task \in Tasks, descriptor_type \in DescriptorTypes :
             walk = [graph |-> "luigi", descriptor_type |-> descriptor_type,
                     path |-> <<task>>]
       \/ \E table \in Tables :
             walk = [graph |-> "depc", descriptor_type |-> "curv",
                     path |-> <<table>>]

GraphNext ==
    \/ Schedule
    \/ ResolveParent

GraphSpec == GraphSpecInit /\ [][GraphNext]_vars

\* ------------------------------------------------------------------------
\* DescriptorsId.run over the splits
\* ------------------------------------------------------------------------
DescSpecInit ==
    /\ StageAtRest
    /\ runs \in 1..MaxRuns
    /\ SplitInit
    /\ ReportAtRest
    /\ DepcAtRest
    /\ RankAtRest
    /\ GraphAtRest
    /\ dcfg \in [k : 1..MaxK, serial : BOOLEAN, scales : DescriptorScaleLists]
    /\ dpc = "split"
    /\ run_idx = 0
    /\ ann = [s \in Range(dcfg.scales) |-> NoIndex]
    /\ identified = {}
    /\ dexc = Raised("none", "none")
    /\ SplitLocalsInit

DescNext ==
    \/ LoadSplit
    \/ BuildStart
    \/ BuildEnd
    \/ BuildMapRaise
    \/ BuildJoinRaise
    \/ BuildMapReturn
    \/ IdentifyStart
    \/ IdentifyEnd
    \/ IdentifyJoinRaise
    \/ NextSplit

DescSpec == DescSpecInit /\ [][DescNext]_vars

\* ------------------------------------------------------------------------
\* Vocabulary of the properties
\* ------------------------------------------------------------------------
\* the j-th smallest element of a set of positions
Nth(S, j) == CHOOSE i \in S : Cardinality({m \in S : m <= i}) = j

\* the subsequence of seq at the positions S, in order
Sub(seq, S) == [j \in 1..Cardinality(S) |-> seq[Nth(S, j)]]

Pooled == stage \in PoolStages \/ (stage \in StoreStages /\ ~cfg.serial)

\* the artifacts output() and the configuration promise for an image: every
\* target file, and in a store every configured scale key
ExpectedArtifacts(f) ==
    LET output == Output(stage)
    IN  IF f \notin DOMAIN output
        THEN {}
        ELSE {Art(output[f][k], <<>>) : k \in DOMAIN output[f]}
             \cup (IF stage \in StoreStages
                   THEN {Art(output[f][StoreKind(stage)], ScaleKey(stage, sc)) :
                             sc \in Range(ConfiguredScales(stage))}
                   ELSE {})

PresentIn(fs, es, a) ==
    /\ a.path \in fs
    /\ a.key # <<>> => \E e \in es : e.path = a.path /\ e.key = a.key

Present(a) == PresentIn(files, entries, a)

\* output() names artifacts for the image and all of them existed when
\* run() was entered
CompleteAtStart(f) ==
    /\ f \in DOMAIN Output(stage)
    /\ \A a \in ExpectedArtifacts(f) : PresentIn(start_files, start_entries, a)

ContentOf(es, a) == {e \in es : e.path = a.path /\ e.key = a.key}

\* the artifacts the worker function writes for item i of to_process
WritesOf(i) ==
    LET ops == ItemOps(stage, to_process[i])
    IN  {Art(ops[n].path, ops[n].key) :
            n \in {m \in 1..Len(ops) : ops[m].op \in {"rename", "h5create"}}}

\* ------------------------------------------------------------------------
\* C1
\* ------------------------------------------------------------------------
\* positions of the input list whose image misses an expected artifact
MissingPositions ==
    {i \in 1..Len(input_list) :
        \E a \in ExpectedArtifacts(input_list[i]) : ~Present(a)}

\* C1: in a per-image stage, whatever earlier runs and interruptions left on
\* disk, the list get_incomplete() hands to run() is exactly the input items
\* that miss at least one expected artifact, in input order; it is a function
\* of the input list and of the files that exist.
C1_IncompleteIsExactlyMissing ==
    (pc = "ready" /\ stage \in PerImageStages) =>
        /\ Len(to_process) = Cardinality(MissingPositions)
        /\ \A j \in 1..Len(to_process) :
              to_process[j].fpath = Sub(input_list, MissingPositions)[j]

\* a restart after an interruption in the middle of an item: one image has
\* some but not all of its artifacts, and another image is complete
C1_Witness ==
    /\ pc = "ready"
    /\ stage \in PerImageStages
    /\ \E f \in Range(input_list) :
          /\ \E a \in ExpectedArtifacts(f) : Present(a)
          /\ \E a \in ExpectedArtifacts(f) : ~Present(a)
    /\ \E f \in Range(input_list) : \A a \in ExpectedArtifacts(f) : Present(a)
    /\ to_process # <<>>

\* ------------------------------------------------------------------------
\* C2
\* ------------------------------------------------------------------------
\* C2: every file and every scale key the completeness check can see is
\* fully written, and no store is left behind by a writer that was killed
\* while it held the store open.
C2_VisibleIsFullyWritten ==
    /\ \A e \in entries : e.path \in files => e.full
    /\ \A p \in files : p \notin torn

\* ------------------------------------------------------------------------
\* C3
\* ------------------------------------------------------------------------
\* C3: an image that was complete when run() was entered is not in
\* to_process, is not handed to the worker function, and none of its
\* artifacts is written or changed during the run; if every image was
\* complete, nothing is dispatched or written and complete() is true.
C3_CompleteItemsUntouched ==
    pc # "idle" =>
        /\ \A f \in Range(input_list) : CompleteAtStart(f) =>
              /\ \A i \in 1..Len(to_process) : to_process[i].fpath # f
              /\ \A i \in calls : to_process[i].fpath # f
              /\ \A a \in ExpectedArtifacts(f) :
                    /\ a \notin written
                    /\ ContentOf(entries, a) = ContentOf(start_entries, a)
        /\ (\A f \in Range(input_list) : CompleteAtStart(f)) =>
              /\ to_process = <<>>
              /\ calls = {}
              /\ written = {}
              /\ Complete(stage)

\* a run that found one image complete and went on to write another's
C3_Witness ==
    /\ pc = "returned"
    /\ \E f \in Range(input_list) : CompleteAtStart(f)
    /\ written # {}

\* ------------------------------------------------------------------------
\* C4
\* ------------------------------------------------------------------------
RaisedItems == {i \in calls : to_process[i].fpath \in bad}

\* C4: when the worker function raised on an item, the run still ends
\* normally, every other dispatched item has all its artifacts, and the
\* failed item has its own artifacts recorded too (with the failure flag).
C4_FailureIsIsolated ==
    (pc \in {"returned", "raised"} /\ RaisedItems # {}) =>
        /\ pc = "returned"
        /\ \A i \in 1..Len(to_process) :
              \A a \in ExpectedArtifacts(to_process[i].fpath) : Present(a)

\* ------------------------------------------------------------------------
\* C5
\* ------------------------------------------------------------------------
StorePath(f) == Output(stage)[f][StoreKind(stage)]

\* positions of the configured scales whose key the store of f does not hold
AbsentScales(f) ==
    {n \in 1..Len(ConfiguredScales(stage)) :
        ~Present(Art(StorePath(f), ScaleKey(stage, ConfiguredScales(stage)[n])))}

\* to_process is the images at the positions P, each with its absent scales
SchedulesAbsentScalesAt(P) ==
    /\ Len(to_process) = Cardinality(P)
    /\ \A j \in 1..Len(to_process) :
          /\ to_process[j].fpath = Sub(input_list, P)[j]
          /\ to_process[j].scales =
                Sub(ConfiguredScales(stage), AbsentScales(to_process[j].fpath))

\* C5: an image is scheduled if and only if some configured scale
\* is absent from its store, with exactly the absent scales in configured
\* order.
C5_OmittedIffNoScaleMissing ==
    (pc = "ready" /\ stage \in StoreStages) =>
        SchedulesAbsentScalesAt(
            {i \in 1..Len(input_list) : AbsentScales(input_list[i]) # {}})

\* ------------------------------------------------------------------------
\* C8
\* ------------------------------------------------------------------------
\* C8: no two items dispatched to the pool write the same artifact path.
C8_DispatchedWritesDisjoint ==
    (pc = "map" /\ Pooled) =>
        \A i, j \in 1..Len(to_process) :
            i # j => {a.path : a \in WritesOf(i)} \cap
                     {a.path : a \in WritesOf(j)} = {}

\* ------------------------------------------------------------------------
\* C9
\* ------------------------------------------------------------------------
\* the last item of to_process, in list order, that writes artifact a
LastWriter(a) ==
    LET W == {i \in 1..Len(to_process) : a \in WritesOf(i)}
    IN  CHOOSE i \in W : \A m \in W : m <= i

\* C9: when a run has finished, every artifact written during the run holds
\* what processing the items one after another in list order leaves there:
\* one and the same content for every completion order of the workers.
C9_FinalContentOrderIndependent ==
    pc = "returned" =>
        \A e \in entries :
            Art(e.path, e.key) \in written =>
                e.val.src = to_process[LastWriter(Art(e.path, e.key))].fpath

\* ------------------------------------------------------------------------
\* C10
\* ------------------------------------------------------------------------
\* C10: when a pooled run() has returned or raised, the pool has been closed
\* and joined, every dispatched chunk has delivered its result, and no
\* worker is still working; a run() that raised before it made its pool has
\* dispatched nothing.
C10_ReturnsAfterJoin ==
    (Pooled /\ pc \in {"returned", "raised"}) =>
        /\ queue = <<>>
        /\ \A w \in 1..NumProcs : workers[w] = IdleWorker
        /\ IF pc = "raised" /\ pool_state = "none"
           THEN calls = {} /\ written = {}
           ELSE /\ pool_state = "joined"
                /\ done_tasks \cup failed_tasks =
                       1..NumChunks(Len(to_process))

\* run() raised although another dispatched item went through
C10_Witness ==
    /\ Pooled
    /\ pc = "raised"
    /\ failed_tasks # {}
    /\ done_tasks # {}

\* ------------------------------------------------------------------------
\* C6
\* ------------------------------------------------------------------------
\* C6: an artifact that exists is not written again by an evaluation of
\* output() or of get_input_list(): when DescriptorsId.output() or
\* TimeWarpingId.output() finds a query split missing, the split files that
\* exist are not regenerated, and get_input_list() does not regenerate the
\* outputs of PrepareData that exist.
C6_ExistingArtifactsNotRegenerated ==
    \A r \in rewritten : r.by \notin {"DescriptorsId.output", "get_input_list"}

\* ------------------------------------------------------------------------
\* C7
\* ------------------------------------------------------------------------
\* C7: an artifact that the task, under its present parameters, identifies as
\* the artifact of one of its input images was computed with the present
\* values of the parameters its worker function is given; an artifact made
\* under another value of such a parameter has another path or key.
C7_IdentityCoversWorkerParams ==
    \A f \in Range(input_list) : \A a \in ExpectedArtifacts(f) :
        \A e \in ContentOf(entries, a) :
            e.full => e.val.params = WorkerParams(stage)

\* ------------------------------------------------------------------------
\* C11
\* ------------------------------------------------------------------------
\* C11: an image on which the worker function failed in an earlier run is
\* terminal for the stage under the same parameters: with no artifact
\* deleted, get_incomplete() of a later run does not return it, so that the
\* worker function is not invoked on it again.
C11_FailedItemsAreTerminal ==
    pc = "ready" =>
        \A i \in 1..Len(to_process) : to_process[i].fpath \notin raised_on

\* ------------------------------------------------------------------------
\* C12
\* ------------------------------------------------------------------------
\* C12: every batch that Localization.run and Segmentation.run hand to the
\* inference function has exactly batch_size rows, the last batch included.
C12_BatchesHaveBatchSizeRows ==
    (stage \in GpuStages /\ pc = "gpuwrite") => batch_rows = cfg.batch_size

\* ------------------------------------------------------------------------
\* C13
\* ------------------------------------------------------------------------
\* the tables of the chain that are computed from table number n
Downstream(n) == {ChainTables[m] : m \in (n + 1)..Len(ChainTables)}

\* C13: in the chain keypoints -> outline -> trailing_edge -> curvature ->
\* curvature_descriptor, a row whose success flag is False at one stage has
\* the flag False, and no value, in every downstream table that is computed,
\* and no stage raises.
C13_FalseFlagPropagates ==
    /\ ~depc_error
    /\ \A n \in 1..Len(ChainTables) : \A t \in Downstream(n) :
          \A i \in 1..Len(tables[t]) :
              ~tables[ChainTables[n]][i].success =>
                  /\ ~tables[t][i].success
                  /\ tables[t][i].value = "None"

\* the whole chain is computed for an annotation that failed at a stage
\* below keypoints and for one that did not fail
C13_Witness ==
    /\ tables["curvature_descriptor"] # <<>>
    /\ \E i \in 1..Len(annots) :
          /\ tables["keypoints"][i].success
          /\ ~tables["curvature_descriptor"][i].success
    /\ \E i \in 1..Len(annots) : tables["curvature_descriptor"][i].success

\* ------------------------------------------------------------------------
\* Scoring and ranking
\* ------------------------------------------------------------------------
\* the costs of a query's vectors against a database identity's vectors,
\* over the cross product
PairCosts(query_vectors, database_vectors) ==
    {SimFunc(q, d) : q \in Range(query_vectors), d \in Range(database_vectors)}

IndexOf(dind) == CHOOSE i \in 1..Len(db_indivs) : db_indivs[i] = dind

\* the score a row gave to a database identity
ScoreOf(row, dind) == row.scores[IndexOf(dind)]

\* C15: the ranked list of every row holds every database identity exactly
\* once, in an order of non-decreasing score.
C15_RankedIsSortedPermutation ==
    \A n \in 1..Len(all_rows) :
        LET ranked == all_rows[n].ranked_indivs
        IN  /\ Len(ranked) = Len(db_indivs)
            /\ Range(ranked) = Range(db_indivs)
            /\ \A i, j \in 1..Len(ranked) : ranked[i] = ranked[j] => i = j
            /\ \A i \in 1..(Len(ranked) - 1) :
                  ScoreOf(all_rows[n], ranked[i])
                      <= ScoreOf(all_rows[n], ranked[i + 1])

\* a row over the largest database whose scores differ and whose ranked
\* list is not in the order of db_indivs
C15_Witness ==
    \E n \in 1..Len(all_rows) :
        /\ Len(db_indivs) = MaxIds
        /\ all_rows[n].ranked_indivs # db_indivs
        /\ \E i, j \in 1..Len(db_indivs) :
              all_rows[n].scores[i] < all_rows[n].scores[j]

\* C16: database identities with equal scores appear in the ranked list in
\* the order they have in db_indivs.
C16_TiesKeepDatabaseOrder ==
    \A n \in 1..Len(all_rows) :
        LET ranked == all_rows[n].ranked_indivs
        IN  \A i, j \in 1..Len(ranked) :
                (/\ i < j
                 /\ ScoreOf(all_rows[n], ranked[i])
                        = ScoreOf(all_rows[n], ranked[j]))
                    => IndexOf(ranked[i]) < IndexOf(ranked[j])

\* C17: the rank of a row is -1 exactly when the true identity is not in
\* the database; otherwise it is the position, counted from 1, of the
\* true identity in the ranked list.
C17_RankIsPositionOrMinusOne ==
    \A n \in 1..Len(all_rows) :
        LET row == all_rows[n]
        IN  /\ row.rank = -1 <=> row.qind \notin Range(db_indivs)
            /\ row.rank # -1 =>
                  /\ row.rank \in 1..Len(db_indivs)
                  /\ row.ranked_indivs[row.rank] = row.qind

\* a row of an identity outside the database, and a row whose true
\* identity is ranked last in a database of several identities
C17_Witness ==
    /\ \E n \in 1..Len(all_rows) : all_rows[n].rank = -1
    /\ \E n \in 1..Len(all_rows) :
          /\ Len(db_indivs) > 1
          /\ all_rows[n].rank = Len(db_indivs)

\* the database identities holding a vector identical to one of the
\* query's vectors
ExactMatches(row) ==
    {dind \in Range(db_indivs) :
        Range(row.query_vectors) \cap Range(db_curv[dind]) # {}}

C19_TopkForEveryDatabaseRank ==
    rpc = "done" =>
        {topk_rows[i].k : i \in DOMAIN topk_rows} = 1..Len(db_indivs)

\* the query encounters whose true identity is ranked within the first k
RankedWithin(k) ==
    {n \in 1..Len(all_rows) : all_rows[n].rank \in 1..k}

\* C20: the accuracy written for k is 100 times the number of query
\* encounters whose true identity has a rank between 1 and k, divided by
\* the number of query encounters evaluated.
C20_AccuracyOverAllQueries ==
    rpc = "done" =>
        \A i \in DOMAIN topk_rows :
            topk_rows[i].topk[1] * Len(all_rows) =
                100 * Cardinality(RankedWithin(topk_rows[i].k))
                    * topk_rows[i].topk[2]

\* C21: the accuracies of the 'topk' csv do not decrease with k.
C21_TopkNonDecreasing ==
    \A i, j \in DOMAIN topk_rows :
        topk_rows[i].k < topk_rows[j].k =>
            topk_rows[i].topk[1] * topk_rows[j].topk[2]
                <= topk_rows[j].topk[1] * topk_rows[i].topk[2]

\* a 'topk' csv whose accuracy grows from one k to the next
C21_Witness ==
    /\ rpc = "done"
    /\ \E i, j \in DOMAIN topk_rows :
          /\ topk_rows[i].k < topk_rows[j].k
          /\ topk_rows[i].topk[1] * topk_rows[j].topk[2]
                < topk_rows[j].topk[1] * topk_rows[i].topk[2]

\* C22: when every query encounter evaluated is of a database identity,
\* the 'topk' csv holds a row for k = number of database identities and
\* its accuracy is 100.
C22_FullAccuracyAtDatabaseSize ==
    (/\ rpc = "done"
     /\ all_rows # <<>>
     /\ \A n \in 1..Len(all_rows) : all_rows[n].qind \in Range(db_indivs))
        => \E i \in DOMAIN topk_rows :
              /\ topk_rows[i].k = Len(db_indivs)
              /\ topk_rows[i].topk[1] = 100 * topk_rows[i].topk[2]

\* the query encounters of an identity that got a rank
KnownEncounters(qind) ==
    {n \in 1..Len(all_rows) :
        all_rows[n].qind = qind /\ all_rows[n].rank # -1}

\* the sum of Factorial(MaxIds) / rank over a set of query encounters
RECURSIVE ScaledReciprocals(_)
ScaledReciprocals(encs) ==
    IF encs = {} THEN 0
    ELSE LET n == CHOOSE m \in encs : TRUE
         IN  (Factorial(MaxIds) \div all_rows[n].rank)
                 + ScaledReciprocals(encs \ {n})

C24_UnknownNeverRanked ==
    /\ \A n \in 1..Len(all_rows) :
          all_rows[n].qind \notin Range(db_indivs) =>
              /\ all_rows[n].rank = -1
              /\ all_rows[n].qind \notin DOMAIN indiv_rank_indices
    /\ \A qind \in DOMAIN indiv_rank_indices :
          /\ Len(indiv_rank_indices[qind]) = Cardinality(KnownEncounters(qind))
          /\ \A i \in 1..Len(indiv_rank_indices[qind]) :
                indiv_rank_indices[qind][i] \in 1..Len(db_indivs)

\* a finished run with an encounter of unknown identity after an
\* encounter of a database identity
C24_Witness ==
    /\ rpc = "done"
    /\ Len(all_rows) = 2
    /\ all_rows[1].rank # -1
    /\ all_rows[2].rank = -1
    /\ DOMAIN topk_rows # {}

\* ------------------------------------------------------------------------
\* PrepareData.get_input_list
\* ------------------------------------------------------------------------
\* C28: get_input_list() returns the item list in every reachable state of
\* PrepareData's outputs: whenever the csv and the pickle are not both
\* present it runs PrepareData before it reads the pickle, so the read
\* never fails.
C28_GetInputListAlwaysReturnsList ==
    /\ last_result # "IOError"
    /\ ppc = "read" => PrepareDataComplete

\* ------------------------------------------------------------------------
\* DescriptorsId.run and the dependency relations
\* ------------------------------------------------------------------------
\* C25: when the reference set of a split is empty or the build of an
\* index raises, run() does not end with that exception.
C25_IndexFailureNotFatal ==
    dexc.at \notin {"np.max(db_descs_list)", "build_annoy_index"}

\* C26: no query encounter is identified in a split whose database holds
\* fewer identities than the requested number of neighbours k.
C26_AbortsWhenKExceedsIdentities ==
    \A q \in id_running \cup identified : dcfg.k <= q.num_dindivs

\* everything reachable from a set of nodes by following the relation
RECURSIVE Ancestors(_, _)
Ancestors(S, n) ==
    IF n = 0 THEN S
    ELSE Ancestors(S \cup UNION {Upstream(node) : node \in S}, n - 1)

Root == IF walk.graph = "luigi" THEN "PrepareData" ELSE "annotations"

\* C27: no walk up requires() or up parents comes back to a node it has
\* visited, and the walk's first node, unless it is the root itself, has
\* the root (PrepareData, resp. annotations) among its ancestors.
C27_DependenciesAcyclicAndRooted ==
    /\ \A i, j \in 1..Len(walk.path) : walk.path[i] = walk.path[j] => i = j
    /\ Upstream(Root) = {}
    /\ Root \in Ancestors({walk.path[1]}, Cardinality(Nodes))

\* a walk from DescriptorsResults through the curvature descriptors down
\* to PrepareData
C27_Witness ==
    /\ walk.graph = "luigi"
    /\ walk.path[1] = "DescriptorsResults"
    /\ \E i \in 1..Len(walk.path) : walk.path[i] = "CurvatureDescriptors"
    /\ Len(walk.path) >= 8
    /\ walk.path[Len(walk.path)] = "PrepareData"

\* C29: an identification in progress reads, for every scale, the index
\* built completely from the database of its own split, and so did every
\* identification that finished; no index is being built while an
\* identification is in progress.
C29_IdentifiedAgainstOwnSplitIndex ==
    /\ \A q \in id_running \cup identified : \A s \in Range(dcfg.scales) :
          q.seen[s] = [split |-> q.split, state |-> "built"]
    /\ \A q \in id_running : \A s \in Range(dcfg.scales) :
          /\ ann[s] = q.seen[s]
          /\ builds[s] = "done"

\* the second split's indexes are built and one of its encounters is
\* identified after the first split's encounters were
C29_Witness ==
    /\ \E q \in identified : q.split = 0
    /\ \E q \in identified : q.split = 1
    /\ Len(dcfg.scales) > 1
    /\ ~dcfg.serial

\* C30: for every scale the labels collected are as many as the stacked
\* descriptor rows, the label of every row is the identity that owns the
\* row, and run() never ends with the assertion failing.
C30_LabelsMatchRows ==
    /\ dexc.exc # "AssertionError"
    /\ \A s \in DOMAIN db_names_dict :
          /\ Len(db_names_dict[s]) = Len(db_descs_dict[s])
          /\ \A r \in 1..Len(db_descs_dict[s]) :
                /\ db_names_dict[s][r] = db_descs_dict[s][r].owner
                /\ db_descs_dict[s][r].scale = s

\* a database of several identities, the first with an image of no rows
\* and an image with rows, loaded for several scales
C30_Witness ==
    /\ dpc = "build"
    /\ Len(dcfg.scales) > 1
    /\ Len(db_fpath_dict) > 1
    /\ db_fpath_dict[1].fpaths = <<0, 1>>
    /\ \A s \in DOMAIN db_names_dict : Len(db_names_dict[s]) > 1

\* ------------------------------------------------------------------------
\* C31
\* ------------------------------------------------------------------------
\* the smaller of two numbers
Smaller(a, b) == IF a < b THEN a ELSE b

\* C31: in a GPU stage, while batch number b (counted from 0) is written,
\* the items handed to the inference function so far are exactly the first
\* min(n, (b + 1) * batch_size) items of the incomplete list and the batch
\* holds those after the first b * batch_size; the artifacts being written
\* are the targets of the item at hand, computed from that item's own
\* image; and a run that returns has made ceil(n / batch_size) batches.
C31_BatchesPartitionInOrder ==
    stage \in GpuStages =>
        LET n == Len(to_process)
            bs == cfg.batch_size
        IN  /\ pc = "gpuwrite" =>
                  /\ calls = 1..Smaller(n, (batch + 1) * bs)
                  /\ batch_rows = Smaller(n, (batch + 1) * bs) - batch * bs
                  /\ batch_rows >= 1
                  /\ \A m \in DOMAIN main_ops :
                        /\ main_ops[m].val.src = to_process[next - 1].fpath
                        /\ \E k \in DOMAIN Output(stage)[to_process[next - 1].fpath] :
                              main_ops[m].path
                                  = Output(stage)[to_process[next - 1].fpath][k]
            /\ (pc = "returned" /\ ~exc /\ calls # {}) =>
                  /\ calls = 1..n
                  /\ batch * bs >= n
                  /\ (batch - 1) * bs < n

\* the second row of a batch of two is being written
C31_Witness ==
    /\ stage \in GpuStages
    /\ pc = "gpuwrite"
    /\ cfg.batch_size = 2
    /\ batch_rows = 2
    /\ next - 1 = 2
    /\ main_ops # <<>>
    /\ to_process[1].fpath # to_process[2].fpath

\* ------------------------------------------------------------------------
\* C32
\* ------------------------------------------------------------------------
\* C32: whenever the split files of all the runs exist, TimeWarpingId's
\* output() (with which its get_incomplete() begins) and run(), and
\* TimeWarpingResults.run(), end without an error.
C32_SplitConsumersEvaluate ==
    [][(/\ SplitsComplete
        /\ \/ TimeWarpingIdOutput
           \/ TimeWarpingIdRun
           \/ TimeWarpingResultsRun)
          => last_result' # "AttributeError"]_vars

TreatedAsComputed(f, scale) ==
    \A j \in 1..Len(to_process) :
        to_process[j].fpath = f => scale \notin Range(to_process[j].scales)

\* C34: when get_incomplete() of a store stage treats a configured scale of
\* an image as already computed, the image's store holds a dataset that was
\* computed for that very scale, not only one computed for another scale.
C34_ScalesTrackedSeparately ==
    (pc = "ready" /\ stage \in StoreStages) =>
        \A i \in 1..Len(input_list) :
            \A n \in 1..Len(ConfiguredScales(stage)) :
                LET f == input_list[i]
                    scale == ConfiguredScales(stage)[n]
                IN  TreatedAsComputed(f, scale) =>
                        \E e \in entries : /\ e.path = StorePath(f)
                                           /\ e.val.scale = scale

\* ------------------------------------------------------------------------
\* C35
\* ------------------------------------------------------------------------
\* the image is among the images the dict offers to the split function
Offered(fpath) == \E kv \in fname_trailing_edge_dict : kv.value = fpath

\* C35: when the collected images are handed to the split function, an
\* image of the input list is among them exactly if its trailing-coords
\* pickle holds something other than None; and the collection raises only
\* when a pickle is missing, never because one holds None.
C35_OfferedIffTrailingEdge ==
    /\ cpc = "split" =>
          \A f \in Range(te_input) :
              Offered(f) <=> te_artifacts[TrailingEdgePath(f)] # "None"
    /\ cpc = "raised" =>
          \E f \in Range(te_input) :
              te_artifacts[TrailingEdgePath(f)] = "missing"

\* ------------------------------------------------------------------------
\* C36
\* ------------------------------------------------------------------------
\* the ks a split emits an accuracy for
EmittedKs(r) == DOMAIN TopkList(split_ranks[r])

\* C36: the aggregation does not raise, and the aggregate file it writes
\* has one row for every k some split emitted, the row of k holding the
\* mean, minimum, maximum and variance of accuracy(k) over all the splits.
C36_AggregateRowPerEmittedK ==
    /\ apc # "raised"
    /\ apc = "done" =>
          /\ DOMAIN agg_rows = UNION {EmittedKs(r) : r \in 0..(runs - 1)}
          /\ \A k \in DOMAIN agg_rows :
                LET acc == [r \in 0..(runs - 1) |->
                               Units(TopkList(split_ranks[r])[k])]
                    total == SumOver(acc, 0..(runs - 1))
                    squares == SumOver([r \in 0..(runs - 1) |-> acc[r] * acc[r]],
                                       0..(runs - 1))
                IN  /\ agg_rows[k].mean = <<total, runs>>
                    /\ \A r \in 0..(runs - 1) :
                          agg_rows[k].min <= acc[r] /\ acc[r] <= agg_rows[k].max
                    /\ \E r \in 0..(runs - 1) : agg_rows[k].min = acc[r]
                    /\ \E r \in 0..(runs - 1) : agg_rows[k].max = acc[r]
                    /\ agg_rows[k].variance
                           = <<runs * squares - total * total, runs * runs>>

====
